---- MODULE Spec2Model ----
(***************************************************************************)
(* Model of the Jito bundle builder of solana-tx-toolkit                   *)
(* (crates/tx-optimizer/src/bundle.rs): the builder's state, the retry /   *)
(* backoff protocol of submit, the status mapping of check_status and the  *)
(* polling loop of submit_and_confirm.                                     *)
(*                                                                         *)
(* One JitoBundleBuilder and one call on it are modelled.  The relay is    *)
(* the environment: each request is answered by a nondeterministically     *)
(* chosen response after a nondeterministically chosen latency.  Time is   *)
(* a millisecond clock `now` advanced by request latencies and sleeps.     *)
(* Text (error messages, reasons) is a sequence of words, so that          *)
(* str::contains is a real sub-sequence search.                            *)
(***************************************************************************)
EXTENDS Integers, Sequences, FiniteSets, TLC

\* ---------------------------------------------------------------- bounds
\* Largest max_retries (u8 in the source) explored.
MaxRetries == 3

\* ------------------------------------------------------ program constants
MAX_BUNDLE_SIZE == 5
BASE_DELAY_MS == 100
POLL_INTERVAL_MS == 500
REQUEST_TIMEOUT_MS == 10000

\* ------------------------------------------------------------ input sets
\* Serialized transactions (bincode bytes) handed to add_transaction, in the
\* specification of the calls and in the specification of the builder alone.
Txs == {<<0, 1>>}
TxBlobs == {<<0, 0, 57>>, <<1, 0>>, <<255, 255>>}
\* Latencies (ms) of a request that is answered before its timeout.
Latencies == {0, 200}
\* Deadlines (ms) handed to submit_and_confirm.
Timeouts == {0, 700, 1000, 1500}

\* ------------------------------------------------------------ JSON values
\* serde_json::Value, as far as the code inspects it.
JAbsent == [t |-> "absent"]
JNull == [t |-> "null"]
JStr(s) == [t |-> "str", v |-> s]
JNum(n) == [t |-> "num", v |-> n]
JObj(f) == [t |-> "obj", v |-> f]
JArr(a) == [t |-> "arr", v |-> a]

\* Value::get(key): the member of an object, None for anything else.
Get(j, key) ==
    IF j.t = "obj" /\ key \in DOMAIN j.v THEN j.v[key] ELSE JAbsent

\* Value::as_str / Value::as_u64 succeed on a string / a non-negative number.
IsStr(j) == j.t = "str"
IsU64(j) == j.t = "num" /\ j.v >= 0

\* str::contains on word sequences: needle is a contiguous part of hay.
Contains(hay, needle) ==
    \E i \in 0..(Len(hay) - Len(needle)) :
        SubSeq(hay, i + 1, i + Len(needle)) = needle

ALREADY_PROCESSED == <<"already", "processed">>
BLOCKHASH_NOT_FOUND == <<"blockhash", "not", "found">>
UNKNOWN_ERROR == <<"Unknown", "error">>
MAX_RETRIES_EXCEEDED == <<"Max", "retries", "exceeded">>

\* A classification that knows only one of the two terminal conditions.
IsTerminalReason_OnlyAlreadyProcessed(reason) ==
    Contains(reason, ALREADY_PROCESSED)

\* reason.contains("already processed") || reason.contains("blockhash not found")
IsTerminalReason(reason) ==
    \/ Contains(reason, ALREADY_PROCESSED)
    \/ Contains(reason, BLOCKHASH_NOT_FOUND)

\* ------------------------------------------------------- relay responses
ErrObj(msg) == JObj([message |-> msg])

\* Bodies of sendBundle responses: a result, an error, neither, or both.
SubmitBodies ==
    { JObj([result |-> JStr("bundle-1")]),
      JObj([result |-> JNull]),
      JObj([error |-> ErrObj(JStr(<<"bundle", "already", "processed">>))]),
      JObj([error |-> ErrObj(JStr(BLOCKHASH_NOT_FOUND))]),
      JObj([error |-> ErrObj(JStr(<<"Blockhash", "not", "found">>))]),
      JObj([error |-> ErrObj(JStr(<<"rate", "limited">>))]),
      JObj([error |-> JObj(<<>>)]),
      JObj(<<>>),
      JObj([result |-> JStr("bundle-2"),
            error |-> ErrObj(JStr(ALREADY_PROCESSED))]) }

\* What one request can come back with: a transport failure (send() fails),
\* a response whose body is not JSON, or a response with a status and a body.
TransportFailures ==
    { [kind |-> "conn_err"], [kind |-> "timeout"] }

SubmitResponses ==
    TransportFailures \cup
    { [kind |-> "malformed", http_ok |-> ok] : ok \in BOOLEAN } \cup
    { [kind |-> "json", http_ok |-> ok, body |-> b] :
          ok \in BOOLEAN, b \in SubmitBodies }

\* A request that times out takes the whole per-request timeout.
LatencyOk(resp, lat) ==
    IF resp.kind = "timeout" THEN lat = REQUEST_TIMEOUT_MS
    ELSE lat \in Latencies

NoResp == [kind |-> "none"]

\* --------------------------------------------------------------- results
Accepted(id) == [tag |-> "Accepted", bundle_id |-> id]
Landed(id, s) == [tag |-> "Landed", bundle_id |-> id, slot |-> s]
Rejected(r) == [tag |-> "Rejected", reason |-> r]
Expired(id) == [tag |-> "Expired", bundle_id |-> id]

\* Ok(BundleSubmissionResult{..}) / Err(anyhow::Error) / not returned yet.
OkResult(st, n, el) ==
    [kind |-> "Ok", status |-> st, attempts |-> n, elapsed_ms |-> el]
ErrResult(e) == [kind |-> "Err", error |-> e]
NoResult == [kind |-> "None"]

\* -------------------------------------------------- submit: one attempt
\* An acceptance test that insists on a string result.
IsAccepted_StringOnly(http_ok, result) == http_ok /\ IsStr(result)

\* status_code.is_success() and body.get("result") is Some.
IsAccepted(http_ok, result) == http_ok /\ result # JAbsent

\* The body of the match on the outcome of one request.  The value says what
\* the attempt does: return a status, return an error, or fall through to
\* the backoff ("retry").
ClassifyAttempt(resp) ==
    IF resp.kind \in {"conn_err", "timeout"}
    THEN [do |-> "retry"]
    ELSE IF resp.kind = "malformed"
    THEN [do |-> "err",
          error |-> "Failed to parse bundle submission response"]
    ELSE LET body == resp.body
             result == Get(body, "result")
             error == Get(body, "error")
             message == Get(error, "message")
             reason == IF IsStr(message) THEN message.v ELSE UNKNOWN_ERROR
         IN  IF IsAccepted(resp.http_ok, result)
             THEN [do |-> "return",
                   status |-> Accepted(IF IsStr(result) THEN result.v
                                       ELSE "unknown")]
             ELSE IF error # JAbsent /\ IsTerminalReason(reason)
             THEN [do |-> "return", status |-> Rejected(reason)]
             ELSE [do |-> "retry"]

\* 2u64.pow(e)
RECURSIVE Pow2(_)
Pow2(e) == IF e = 0 THEN 1 ELSE 2 * Pow2(e - 1)

\* A backoff that does not grow.
Backoff_Constant(k) == BASE_DELAY_MS

\* The backoff slept after attempt k: 100ms, 200ms, 400ms, ...
Backoff(k) == BASE_DELAY_MS * Pow2(k - 1)

\* ---------------------------------------------------------- check_status
StatusRec(conf, slot) == JObj([confirmation_status |-> conf, slot |-> slot])

StatusBodies ==
    { JObj(<<>>),
      JObj([result |-> JObj(<<>>)]),
      JObj([result |-> JObj([value |-> JNull])]),
      JObj([result |-> JObj([value |-> JArr(<<>>)])]) } \cup
    { JObj([result |-> JObj([value |-> JArr(<<r>>)])]) :
        r \in { StatusRec(JStr("confirmed"), JNum(42)),
                StatusRec(JStr("finalized"), JNum(42)),
                StatusRec(JStr("finalized"), JNum(7)),
                StatusRec(JStr("confirmed"), JStr("42")),
                JObj([confirmation_status |-> JStr("finalized")]),
                StatusRec(JStr("processed"), JNum(42)),
                StatusRec(JNull, JNum(42)),
                JObj([slot |-> JNum(42)]) } }

StatusResponses ==
    TransportFailures \cup
    { [kind |-> "malformed"] } \cup
    { [kind |-> "json", body |-> b] : b \in StatusBodies }

\* The shapes of a status response, read off the response itself.
HasRecord(resp) ==
    /\ resp.kind = "json"
    /\ "result" \in DOMAIN resp.body.v
    /\ "value" \in DOMAIN resp.body.v.result.v
    /\ resp.body.v.result.v.value.t = "arr"
    /\ resp.body.v.result.v.value.v # <<>>

FirstRecord(resp) == resp.body.v.result.v.value.v[1]

IsLandedRecord(resp) ==
    /\ HasRecord(resp)
    /\ "confirmation_status" \in DOMAIN FirstRecord(resp).v
    /\ FirstRecord(resp).v.confirmation_status
           \in {JStr("confirmed"), JStr("finalized")}

IsPendingRecord(resp) == HasRecord(resp) /\ ~IsLandedRecord(resp)

IsNoRecord(resp) == resp.kind = "json" /\ ~HasRecord(resp)

IsFailedQuery(resp) == resp.kind \in {"conn_err", "timeout", "malformed"}

\* A query whose failures are read as an empty response.
StatusQuery_FailureAsEmpty(resp) ==
    IF resp.kind = "json"
    THEN [ok |-> TRUE, body |-> resp.body]
    ELSE [ok |-> TRUE, body |-> JObj(<<>>)]

\* client.post(..).send().await?.json().await?: the parsed body, or the error
\* that check_status returns with `?`.
StatusQuery(resp) ==
    IF resp.kind = "json"
    THEN [ok |-> TRUE, body |-> resp.body]
    ELSE [ok |-> FALSE]

\* A match that knows only 'finalized'.
IsLandedConfirmation_OnlyFinalized(confirmation) ==
    confirmation = "finalized"

\* match confirmation { "confirmed" | "finalized" => .. }
IsLandedConfirmation(confirmation) ==
    confirmation \in {"confirmed", "finalized"}

\* A fall-through that reads a missing record as still pending.
NoRecordStatus_Pending(id) == Accepted(id)

\* The fall-through of check_status when the response holds no record.
NoRecordStatus(id) == Expired(id)

\* The value check_status returns for one response: Ok(status) or Err.
CheckStatus(resp, id) ==
    IF ~StatusQuery(resp).ok
    THEN [ok |-> FALSE]
    ELSE LET result == Get(StatusQuery(resp).body, "result")
             value == Get(result, "value")
         IN  IF result # JAbsent /\ value.t = "arr" /\ Len(value.v) > 0
             THEN LET status == value.v[1]
                      cs == Get(status, "confirmation_status")
                      confirmation == IF IsStr(cs) THEN cs.v ELSE "unknown"
                      sl == Get(status, "slot")
                      slot == IF IsU64(sl) THEN sl.v ELSE 0
                  IN  IF IsLandedConfirmation(confirmation)
                      THEN [ok |-> TRUE, status |-> Landed(id, slot)]
                      ELSE [ok |-> TRUE, status |-> Accepted(id)]
             ELSE [ok |-> TRUE, status |-> NoRecordStatus(id)]

\* ------------------------------------------------------------------ state
VARIABLES
    transactions,   \* JitoBundleBuilder.transactions
    max_retries,    \* JitoBundleBuilder.max_retries
    last_add,       \* outcome of the last add_transaction: none / ok / err
    call,           \* the method called: none / submit / submit_and_confirm
    timeout,        \* argument of submit_and_confirm (ms)
    pc,             \* where the call is: idle, send, backoff, poll_sleep,
                    \* poll_query, done
    now,            \* the clock (ms)
    resolved_at,    \* history: the clock when the last request resolved
    start,          \* submit: Instant taken before the loop
    attempt,        \* submit: the loop variable
    submit_result,  \* submit_and_confirm: what self.submit() returned
    bundle_id,      \* submit_and_confirm: id being polled
    poll_start,     \* submit_and_confirm: Instant taken before polling
    result,         \* what the call returned
    \* history of the call, kept for the properties
    sent,           \* sendBundle requests sent
    sleeps,         \* backoff sleeps performed
    slept_ms,       \* total of the backoff sleeps
    last_resp,      \* response (or failure) of the last sendBundle request
    timed_out,      \* sendBundle requests that timed out
    backoff,        \* outcome of the last backoff computation
    polls,          \* getBundleStatuses requests sent
    poll_sleeps,    \* poll-interval sleeps performed
    last_query_at,  \* time since poll_start at which the last query began
    last_status,    \* response (or failure) of the last status query
    pending_seen,   \* status queries answered with a pending record
    \* the fee estimator (stateless): the call made and what it returned
    fee_call,
    fee_result,
    \* Config::random_tip_account (stateless): the clock it read and its value
    tip_call,
    tip_result,
    \* the tx_vault program: the vault account, the lamports of every
    \* account, and the last instruction with its outcome
    vault,
    lamports,
    vault_call,
    \* calls in flight on independent builders, one record per builder
    tasks

builderVars == <<transactions, max_retries, last_add>>
submitVars == <<start, attempt, sent, sleeps, slept_ms, last_resp, timed_out,
                backoff>>
pollVars == <<bundle_id, poll_start, polls, poll_sleeps, last_query_at,
              last_status, pending_seen>>
feeVars == <<fee_call, fee_result>>
tipVars == <<tip_call, tip_result>>
\* what a call on the builder leaves alone, and what a call on the estimator
\* leaves alone
vaultVars == <<vault, lamports, vault_call>>
bundleFrame == <<feeVars, tipVars, vaultVars, tasks>>
feeFrame == <<tipVars, vaultVars, tasks>>
callVars == <<transactions, max_retries, last_add, call, timeout, pc, now,
              resolved_at,
              start, attempt, submit_result, bundle_id, poll_start, result,
              sent, sleeps, slept_ms, last_resp, timed_out, backoff, polls,
              poll_sleeps, last_query_at, last_status, pending_seen>>
vars == <<transactions, max_retries, last_add, call, timeout, pc, now,
          resolved_at, start,
          attempt, submit_result, bundle_id, poll_start, result, sent, sleeps,
          slept_ms, last_resp, timed_out, backoff, polls, poll_sleeps,
          last_query_at, last_status, pending_seen, fee_call, fee_result,
          tip_call, tip_result, vault, lamports, vault_call, tasks>>

\* No backoff computed yet.
NoBackoff == [kind |-> "none"]

\* No estimator call made yet.
NoFeeCall == [op |-> "none"]
NoTipCall == [op |-> "none"]

\* ------------------------------------------------------- add_transaction
\* A size test that lets one transaction too many in.
IsFull_OffByOne(txs) == Len(txs) > MAX_BUNDLE_SIZE

\* self.transactions.len() >= MAX_BUNDLE_SIZE
IsFull(txs) == Len(txs) >= MAX_BUNDLE_SIZE

AddTransaction(tx) ==
    /\ pc = "idle"
    /\ IF IsFull(transactions)
       THEN /\ last_add' = "err"
            /\ UNCHANGED transactions
       ELSE /\ transactions' = Append(transactions, tx)
            /\ last_add' = "ok"
    /\ UNCHANGED <<max_retries, call, timeout, pc, now, resolved_at,
                   submit_result, result>>
    /\ UNCHANGED bundleFrame
    /\ UNCHANGED submitVars
    /\ UNCHANGED pollVars

\* ------------------------------------------------------------- base58
\* The Bitcoin alphabet used by bs58.
BS58_ALPHABET ==
    << "1", "2", "3", "4", "5", "6", "7", "8", "9",
       "A", "B", "C", "D", "E", "F", "G", "H", "J", "K", "L", "M", "N", "P",
       "Q", "R", "S", "T", "U", "V", "W", "X", "Y", "Z",
       "a", "b", "c", "d", "e", "f", "g", "h", "i", "j", "k", "m", "n", "o",
       "p", "q", "r", "s", "t", "u", "v", "w", "x", "y", "z" >>

Reverse(q) == [i \in 1..Len(q) |-> q[Len(q) + 1 - i]]

\* Number of leading elements of q equal to z.
RECURSIVE LeadingCount(_, _)
LeadingCount(q, z) ==
    IF q # <<>> /\ Head(q) = z THEN 1 + LeadingCount(Tail(q), z) ELSE 0

\* One pass over the digits held so far (least significant first): each
\* digit is scaled by `scale`, the carry is added and the digit reduced
\* modulo `radix`; the carry left over is appended digit by digit.
RECURSIVE PushCarry(_, _)
PushCarry(carry, radix) ==
    IF carry = 0 THEN <<>>
    ELSE <<carry % radix>> \o PushCarry(carry \div radix, radix)

RECURSIVE CarryPass(_, _, _, _)
CarryPass(digits, carry, scale, radix) ==
    IF digits = <<>> THEN PushCarry(carry, radix)
    ELSE LET c == carry + Head(digits) * scale
         IN  <<c % radix>> \o CarryPass(Tail(digits), c \div radix, scale, radix)

\* Radix conversion of the big-endian digit string `input` (digits scaled by
\* `scale`) into little-endian digits modulo `radix`.
RECURSIVE Convert(_, _, _, _)
Convert(input, output, scale, radix) ==
    IF input = <<>> THEN output
    ELSE Convert(Tail(input), CarryPass(output, Head(input), scale, radix),
                 scale, radix)

\* An encoder that forgets the leading zero bytes.
Bs58Encode_NoLeadingZeros(bytes) ==
    LET digits == Convert(bytes, <<>>, 256, 58)
    IN  [i \in 1..Len(digits) |-> BS58_ALPHABET[Reverse(digits)[i] + 1]]

\* bs58::encode(bytes).into_string(): a sequence of characters.
Bs58Encode(bytes) ==
    LET digits == Convert(bytes, <<>>, 256, 58)
        zeros == [i \in 1..LeadingCount(bytes, 0) |-> 0]
        all == Reverse(digits \o zeros)
    IN  [i \in 1..Len(all) |-> BS58_ALPHABET[all[i] + 1]]

\* Index of a character in the alphabet.
Bs58Index(c) == (CHOOSE i \in 1..58 : BS58_ALPHABET[i] = c) - 1

\* bs58::decode(text).into_vec(), for text over the alphabet.
Bs58Decode(text) ==
    LET vals == [i \in 1..Len(text) |-> Bs58Index(text[i])]
        bytes == Convert(vals, <<>>, 58, 256)
        zeros == [i \in 1..LeadingCount(text, "1") |-> 0]
    IN  Reverse(bytes \o zeros)

\* ---------------------------------------------------------------------
\* Machine integers and doubles: values and arithmetic
\* ---------------------------------------------------------------------
\* A u64 is the tuple of its 64 bits, most significant first, so that every
\* value of the type is represented exactly.  An f64 (finite, non-negative)
\* is [m |-> significand bits, e |-> exponent]: the value is m * 2^e, with
\* m of at most F64_SIGNIFICAND_BITS bits and no leading zero; zero is the
\* empty significand.
U64_BITS == 64
F64_SIGNIFICAND_BITS == 53

Zeros(n) == [i \in 1..n |-> 0]
Ones(n) == [i \in 1..n |-> 1]

\* Binary digits of a natural number, most significant first.
RECURSIVE NatBits(_)
NatBits(n) == IF n = 0 THEN <<>> ELSE NatBits(n \div 2) \o <<n % 2>>

\* Value of a (short) bit string.
RECURSIVE BitsNat(_)
BitsNat(bits) ==
    IF bits = <<>> THEN 0
    ELSE 2 * BitsNat(SubSeq(bits, 1, Len(bits) - 1)) + bits[Len(bits)]

Strip(bits) == SubSeq(bits, LeadingCount(bits, 0) + 1, Len(bits))
Pad64(bits) == Zeros(U64_BITS - Len(bits)) \o bits

\* The u64 of a small natural, of 2^k + d, and u64::MAX.
U64(n) == Pad64(NatBits(n))
U64Pow2Plus(k, d) == Pad64(<<1>> \o Zeros(k - Len(NatBits(d))) \o NatBits(d))
U64_MAX == Ones(U64_BITS)

\* a < b and a <= b on u64.
RECURSIVE BitsLess(_, _)
BitsLess(a, b) ==
    IF a = <<>> THEN FALSE
    ELSE IF Head(a) # Head(b) THEN Head(a) < Head(b)
    ELSE BitsLess(Tail(a), Tail(b))

U64Le(a, b) == ~BitsLess(b, a)

\* bits + 1 (one bit longer when every bit is 1).
RECURSIVE IncBits(_)
IncBits(bits) ==
    IF bits = <<>> THEN <<1>>
    ELSE IF bits[Len(bits)] = 0
         THEN SubSeq(bits, 1, Len(bits) - 1) \o <<1>>
         ELSE IncBits(SubSeq(bits, 1, Len(bits) - 1)) \o <<0>>

\* bits * k for a small natural k.
MulBits(bits, k) == Strip(Reverse(CarryPass(Reverse(bits), 0, k, 2)))

F64Zero == [m |-> <<>>, e |-> 0]

\* IEEE-754 rounding (to nearest, ties to even) of the exact value
\* bits * 2^e, where `sticky` tells that the exact value has further
\* non-zero digits below `bits`.
F64RoundNearest(bits, e, sticky) ==
    LET b == Strip(bits)
        drop == Len(b) - F64_SIGNIFICAND_BITS
    IN  IF b = <<>> THEN F64Zero
        ELSE IF drop <= 0 THEN [m |-> b, e |-> e]
        ELSE LET keep == SubSeq(b, 1, F64_SIGNIFICAND_BITS)
                 rest == SubSeq(b, F64_SIGNIFICAND_BITS + 1, Len(b))
                 more == sticky \/ \E i \in 2..Len(rest) : rest[i] = 1
                 up == rest[1] = 1 /\ (more \/ keep[F64_SIGNIFICAND_BITS] = 1)
                 m == IF up THEN IncBits(keep) ELSE keep
             IN  IF Len(m) > F64_SIGNIFICAND_BITS
                 THEN [m |-> SubSeq(m, 1, F64_SIGNIFICAND_BITS),
                       e |-> e + drop + 1]
                 ELSE [m |-> m, e |-> e + drop]

\* `x as f64` for a u64 x.
F64FromU64(x) == F64RoundNearest(x, 0, FALSE)

\* The first `count` binary digits after the point of r / d (r < d), appended
\* to `acc`, and the remainder left.
RECURSIVE FractionBits(_, _, _, _)
FractionBits(r, d, count, acc) ==
    IF count = 0 THEN [bits |-> acc, rem |-> r]
    ELSE FractionBits((2 * r) % d, d, count - 1, acc \o <<(2 * r) \div d>>)

\* Digits generated for a quotient: enough for a full significand, a
\* rounding digit and the leading zeros of a quotient above 2^-8.
QUOTIENT_BITS == F64_SIGNIFICAND_BITS + 9

\* `a as f64 / b as f64` for small naturals a, b (b > 0, a / b > 2^-8).
F64Div(a, b) ==
    LET frac == FractionBits(a % b, b, QUOTIENT_BITS, <<>>)
    IN  F64RoundNearest(NatBits(a \div b) \o frac.bits, -QUOTIENT_BITS,
                        frac.rem # 0)

\* x * y for an f64 x and an f64 y whose significand is a small natural:
\* y is [num |-> significand, exp2 |-> exponent].
F64Mul(x, y) ==
    F64RoundNearest(MulBits(x.m, y.num), x.e + y.exp2, FALSE)

\* The bits of x above the binary point (truncation towards zero).
F64IntegerBits(x) ==
    IF x.e >= 0 THEN x.m \o Zeros(x.e)
    ELSE SubSeq(x.m, 1, Len(x.m) + x.e)

\* f64::round: to the nearest integer, halves away from zero; the result is
\* given as a bit string.
F64Round(x) ==
    IF x.e >= 0 \/ -x.e > Len(x.m) THEN F64IntegerBits(x)
    ELSE IF x.m[Len(x.m) + x.e + 1] = 1 THEN IncBits(F64IntegerBits(x))
    ELSE F64IntegerBits(x)

\* `x as u64` / `x as usize`: the integer bits, saturated at u64::MAX.
F64AsU64(bits) ==
    IF Len(Strip(bits)) > U64_BITS THEN U64_MAX ELSE Pad64(Strip(bits))

Min(a, b) == IF a <= b THEN a ELSE b

\* ----------------------------------------------------- backoff delays
U8_MAX == 255

\* tokio::time::sleep(Duration::from_millis(ms)) was reached with ms.
SleptFor(ms) == [kind |-> "sleep", ms |-> ms]

\* The addition or multiplication overflowed with overflow checks on.
Panicked == [kind |-> "panic"]

\* 100 * 2u64.pow((attempt - 1) as u32) in u64: the exact product while it
\* fits in 64 bits; beyond that either a panic (overflow checks on) or the
\* product modulo 2^64 (overflow checks off).
BackoffOutcomes(k) ==
    LET exact == NatBits(BASE_DELAY_MS) \o Zeros(k - 1)
    IN  IF Len(exact) <= U64_BITS THEN {SleptFor(Pad64(exact))}
        ELSE {Panicked,
              SleptFor(SubSeq(exact, Len(exact) - U64_BITS + 1, Len(exact)))}

\* ----------------------------------------------------------------- build
\* self.transactions.iter().map(|tx| bs58::encode(tx).into_string()).collect()
EncodeAll(txs) == [i \in 1..Len(txs) |-> Bs58Encode(txs[i])]

\* A build without the emptiness test.
Build_AcceptsEmpty(txs) ==
    [ok |-> TRUE,
     payload |-> [method |-> "sendBundle", params |-> <<EncodeAll(txs)>>]]

\* Ok(payload) carries the encoded transactions; Err for an empty bundle.
Build(txs) ==
    IF Len(txs) = 0
    THEN [ok |-> FALSE, error |-> "Cannot build an empty bundle"]
    ELSE [ok |-> TRUE,
          payload |-> [method |-> "sendBundle", params |-> <<EncodeAll(txs)>>]]

\* Ok(serde_json::Value) of build.
OkPayload(pl) == [kind |-> "Ok", payload |-> pl]

\* ---------------------------------------------------- submit_and_confirm
\* while start.elapsed() < timeout
PollCondition(elapsed, deadline) == elapsed < deadline

\* A submit_and_confirm that never polls and hands back what submit returned.
StartsPolling_Never(c, res) == FALSE

\* submit_and_confirm goes on to poll only an Accepted result of submit.
StartsPolling(c, res) ==
    /\ c = "submit_and_confirm"
    /\ res.kind = "Ok"
    /\ res.status.tag = "Accepted"

\* A result that counts the status queries among the attempts.
PollingResult_CountingPolls(st, res, el) ==
    OkResult(st, res.attempts + polls + 1, el)

\* The result built in the polling phase: attempts: result.attempts, where
\* result is what self.submit() returned.
PollingResult(st, res, el) == OkResult(st, res.attempts, el)

\* What follows the return of self.submit() with value res at time t, up to
\* the next suspension point: submit itself just returns res; submit_and_confirm
\* returns anything but Accepted unchanged, and otherwise takes the polling
\* start time and evaluates the loop condition for the first time.
AfterSubmit(c, dl, res, t) ==
    /\ submit_result' = res
    /\ IF StartsPolling(c, res)
       THEN /\ bundle_id' = res.status.bundle_id
            /\ poll_start' = t
            /\ IF PollCondition(0, dl)
               THEN /\ pc' = "poll_sleep"
                    /\ result' = NoResult
               ELSE /\ pc' = "done"
                    /\ result' = PollingResult(Expired(res.status.bundle_id),
                                               res, 0)
       ELSE /\ pc' = "done"
            /\ result' = res
            /\ UNCHANGED <<bundle_id, poll_start>>
    /\ UNCHANGED <<polls, poll_sleeps, last_query_at, last_status,
                   pending_seen>>

\* The return after the loop of submit.
MaxRetriesResult(elapsed) ==
    OkResult(Rejected(MAX_RETRIES_EXCEEDED), max_retries, elapsed)

\* tokio::time::sleep(d).await started at t: the task resumes once d ms have
\* passed.
SleepUntil_NoWait(t, d) == t

SleepUntil(t, d) == t + d

\* ---------------------------------------------------------------- submit
\* A loop whose body runs once before the limit is looked at.
LoopEnters_AtLeastOnce(limit) == TRUE

\* for attempt in 1..=self.max_retries: there is a first iteration.
LoopEnters(limit) == 1 <= limit

\* Entry of submit (directly, or as the first statement of
\* submit_and_confirm): build the payload, take the start time, enter the loop.
Call(c, dl) ==
    /\ pc = "idle"
    /\ call' = c
    /\ timeout' = dl
    /\ IF ~Build(transactions).ok
       THEN /\ AfterSubmit(c, dl, ErrResult(Build(transactions).error), now)
            /\ UNCHANGED <<start, attempt>>
       ELSE IF LoopEnters(max_retries)
       THEN /\ start' = now
            /\ attempt' = 1
            /\ pc' = "send"
            /\ UNCHANGED <<submit_result, result>>
            /\ UNCHANGED pollVars
       ELSE /\ start' = now
            /\ AfterSubmit(c, dl, MaxRetriesResult(0), now)
            /\ UNCHANGED attempt
    /\ UNCHANGED <<now, resolved_at, sent, sleeps, slept_ms, last_resp, timed_out,
                   backoff>>
    /\ UNCHANGED builderVars
    /\ UNCHANGED bundleFrame

Submit == Call("submit", 0)

\* A direct call of build: the payload, or the error for an empty bundle.
BuildPayload ==
    /\ pc = "idle"
    /\ call' = "build"
    /\ pc' = "done"
    /\ result' = IF Build(transactions).ok
                 THEN OkPayload(Build(transactions).payload)
                 ELSE ErrResult(Build(transactions).error)
    /\ UNCHANGED <<timeout, now, resolved_at, submit_result>>
    /\ UNCHANGED builderVars
    /\ UNCHANGED bundleFrame
    /\ UNCHANGED submitVars
    /\ UNCHANGED pollVars

SubmitAndConfirm(dl) == Call("submit_and_confirm", dl)

\* One iteration of the loop up to its next suspension point: the request is
\* sent and resolves to resp after lat ms; the attempt returns, or falls
\* through to the backoff, or (last attempt) to the return after the loop.
SubmitAttempt(resp, lat) ==
    /\ pc = "send"
    /\ LatencyOk(resp, lat)
    /\ now' = now + lat
    /\ resolved_at' = now'
    /\ sent' = sent + 1
    /\ last_resp' = resp
    /\ timed_out' = IF resp.kind = "timeout" THEN timed_out + 1 ELSE timed_out
    /\ LET c == ClassifyAttempt(resp)
       IN  IF c.do = "return"
           THEN AfterSubmit(call, timeout,
                            OkResult(c.status, attempt, now' - start), now')
           ELSE IF c.do = "err"
           THEN AfterSubmit(call, timeout, ErrResult(c.error), now')
           ELSE IF attempt < max_retries
           THEN /\ pc' = "backoff"
                /\ UNCHANGED <<submit_result, result>>
                /\ UNCHANGED pollVars
           ELSE AfterSubmit(call, timeout, MaxRetriesResult(now' - start), now')
    /\ UNCHANGED <<call, timeout, start, attempt, sleeps, slept_ms, backoff>>
    /\ UNCHANGED builderVars
    /\ UNCHANGED bundleFrame

\* tokio::time::sleep(backoff), then the next iteration.
BackoffSleep ==
    /\ pc = "backoff"
    /\ now' = SleepUntil(now, Backoff(attempt))
    /\ UNCHANGED resolved_at
    /\ sleeps' = sleeps + 1
    /\ slept_ms' = slept_ms + Backoff(attempt)
    /\ backoff' = SleptFor(U64(Backoff(attempt)))
    /\ attempt' = attempt + 1
    /\ pc' = "send"
    /\ UNCHANGED <<call, timeout, start, submit_result, result, sent,
                   last_resp, timed_out>>
    /\ UNCHANGED builderVars
    /\ UNCHANGED bundleFrame
    /\ UNCHANGED pollVars

\* tokio::time::sleep(poll_interval) at the top of the polling loop.
PollSleep ==
    /\ pc = "poll_sleep"
    /\ now' = SleepUntil(now, POLL_INTERVAL_MS)
    /\ UNCHANGED resolved_at
    /\ poll_sleeps' = poll_sleeps + 1
    /\ pc' = "poll_query"
    /\ UNCHANGED <<call, timeout, submit_result, result, bundle_id,
                   poll_start, polls, last_query_at, last_status,
                   pending_seen>>
    /\ UNCHANGED builderVars
    /\ UNCHANGED bundleFrame
    /\ UNCHANGED submitVars

\* check_status and the match on its value, then the loop condition.
PollQuery(resp, lat) ==
    /\ pc = "poll_query"
    /\ LatencyOk(resp, lat)
    /\ now' = now + lat
    /\ resolved_at' = now'
    /\ polls' = polls + 1
    /\ last_query_at' = now - poll_start
    /\ last_status' = resp
    /\ pending_seen' = IF IsPendingRecord(resp) THEN pending_seen + 1
                       ELSE pending_seen
    /\ LET st == CheckStatus(resp, bundle_id)
           elapsed == now' - poll_start
       IN  IF st.ok /\ st.status.tag = "Landed"
           THEN /\ result' = PollingResult(Landed(bundle_id, st.status.slot),
                                           submit_result, elapsed)
                /\ pc' = "done"
           ELSE IF st.ok /\ st.status.tag = "Expired"
           THEN /\ result' = PollingResult(Expired(bundle_id),
                                           submit_result, elapsed)
                /\ pc' = "done"
           ELSE IF PollCondition(elapsed, timeout)
           THEN /\ pc' = "poll_sleep"
                /\ UNCHANGED result
           ELSE /\ result' = PollingResult(Expired(bundle_id),
                                           submit_result, elapsed)
                /\ pc' = "done"
    /\ UNCHANGED <<call, timeout, submit_result, bundle_id, poll_start,
                   poll_sleeps>>
    /\ UNCHANGED builderVars
    /\ UNCHANGED bundleFrame
    /\ UNCHANGED submitVars

\* ----------------------------------------------- accounts and lamports
\* In the vault program a u64 is the tuple of its four 16-bit digits, most
\* significant first: every value of the type is represented exactly, and
\* digit sums stay small.
LIMB == 65536

\* The u64 of a natural below 2^31, of 2^63 + n, and u64::MAX.
W64(n) == <<0, 0, n \div LIMB, n % LIMB>>
W64Pow63Plus(n) == <<LIMB \div 2, 0, n \div LIMB, n % LIMB>>
W64_MAX == <<LIMB - 1, LIMB - 1, LIMB - 1, LIMB - 1>>

\* Two wallets and the vault PDA.
Wallets == {"alice", "bob"}
VAULT == "vault"
Accounts == Wallets \cup {VAULT}

InitialLamports ==
    [a \in Accounts |->
        IF a = "alice" THEN W64Pow63Plus(2000000)
        ELSE IF a = "bob" THEN W64(2000000)
        ELSE W64(0)]

\* No account at the vault address yet.
NoVault ==
    [exists |-> FALSE, owner |-> "none", name_len |-> 0,
     total_deposited |-> W64(0), total_withdrawn |-> W64(0),
     tx_count |-> W64(0)]

NoVaultCall == [op |-> "none"]

\* ------------------------------------------------ independent builders
Builders == {1, 2}

MaxTaskRetries == 2

\* A builder (its transactions, tip and retry limit) and the call running on
\* it: the position of the call, its loop variable, the responses it has
\* received to its own requests, the time on its polling clock, and whether
\* a call on another builder was in flight during one of its steps.
Task(txs, tip, retries) ==
    [transactions |-> txs, tip_lamports |-> tip, max_retries |-> retries,
     call |-> "none", timeout |-> 0, pc |-> "idle", attempt |-> 0,
     heard |-> <<>>, asked |-> <<>>, elapsed |-> 0, bundle_id |-> "",
     submit_result |-> NoResult, result |-> NoResult, overlapped |-> FALSE]

\* Two builders made from different configurations.
InitialTasks ==
    [b \in Builders |->
        IF b = 1 THEN Task(<<<<0, 1>>>>, 1000, MaxTaskRetries)
        ELSE Task(<<<<1, 0>>, <<0, 1>>>>, 5000, 1)]

\* JitoBundleBuilder::new: an empty bundle, max_retries from the Config.
Init ==
    /\ transactions = <<>>
    /\ max_retries \in 0..MaxRetries
    /\ last_add = "none"
    /\ call = "none"
    /\ timeout = 0
    /\ pc = "idle"
    /\ now = 0
    /\ resolved_at = 0
    /\ start = 0
    /\ attempt = 0
    /\ submit_result = NoResult
    /\ bundle_id = ""
    /\ poll_start = 0
    /\ result = NoResult
    /\ sent = 0
    /\ sleeps = 0
    /\ slept_ms = 0
    /\ last_resp = NoResp
    /\ polls = 0
    /\ poll_sleeps = 0
    /\ last_query_at = 0
    /\ last_status = NoResp
    /\ timed_out = 0
    /\ backoff = NoBackoff
    /\ pending_seen = 0
    /\ fee_call = NoFeeCall
    /\ fee_result = NoResult
    /\ tip_call = NoTipCall
    /\ tip_result = NoResult
    /\ vault = NoVault
    /\ lamports = InitialLamports
    /\ vault_call = NoVaultCall
    /\ tasks = InitialTasks


Next ==
    \/ \E tx \in Txs : AddTransaction(tx)
    \/ BuildPayload
    \/ Submit
    \/ \E dl \in Timeouts : SubmitAndConfirm(dl)
    \/ \E resp \in SubmitResponses, lat \in Latencies \cup {REQUEST_TIMEOUT_MS} :
           SubmitAttempt(resp, lat)
    \/ BackoffSleep
    \/ PollSleep
    \/ \E resp \in StatusResponses, lat \in Latencies \cup {REQUEST_TIMEOUT_MS} :
           PollQuery(resp, lat)

Spec == Init /\ [][Next]_vars

\* The builder alone, with several distinct transactions.
\* ------------------------------------------------------- tip accounts
JITO_TIP_ACCOUNTS ==
    << "96gYZGLnJYVFmbjzopPSU6QiEV5fGqZNyN9nmNhvrZU5",
       "HFqU5x63VTqvQss8hp11i4bVqkfRtQ7NmXwkiGNHoR5t",
       "Cw8CFyM9FkoMi7K7Crf6HNQqf4uEMzpKw6QNghXLvLkY",
       "ADaUMid9yfUytqMBgopwjb2DTLSLVPDVnF8NfRUm7AEz",
       "DfXygSm4jCyNCybVYYK6DwvWqjKee8pbDmJGcLWNDXjh",
       "ADuUkR4vqLUMWXxW9gh6D6L8pMSawimctcNZ5pGwDcEt",
       "DttWaMuVvTiduZRnguLF7jNxTgiMBZ1hyAumKUiL2KRL",
       "3AVi9Tg9Uo68tJfuvoKvqKNWKkC5wPdSSdeBnizKZ6jT" >>

NANOS_PER_SEC == 1000000000

MaxLowNanos == 16

\* Sub-second parts of the distance between the system clock and the epoch.
NanoSamples ==
    (0..MaxLowNanos) \cup ((NANOS_PER_SEC - 9)..(NANOS_PER_SEC - 1))

\* What SystemTime::now().duration_since(UNIX_EPOCH) can see: the clock at
\* or after the epoch (Ok), or before it (Err).
Clocks == [before_epoch : BOOLEAN, nanos : NanoSamples]

\* unwrap_or_default().subsec_nanos(): the default Duration is zero.
SubsecNanos(clock) == IF clock.before_epoch THEN 0 ELSE clock.nanos

TipIndex_NoModulo(nanos) == nanos

TipIndex(nanos) == nanos % Len(JITO_TIP_ACCOUNTS)

\* Indexing the array (from 0 in the source): out of range aborts.
RandomTipAccount(clock) ==
    LET i == TipIndex(SubsecNanos(clock))
    IN  IF i < Len(JITO_TIP_ACCOUNTS)
        THEN [kind |-> "Ok", account |-> JITO_TIP_ACCOUNTS[i + 1]]
        ELSE [kind |-> "Panic"]

RandomTipAccountCall(clock) ==
    /\ tip_call' = [op |-> "random_tip_account", clock |-> clock]
    /\ tip_result' = RandomTipAccount(clock)
    /\ UNCHANGED callVars
    /\ UNCHANGED feeVars
    /\ UNCHANGED vaultVars
    /\ UNCHANGED tasks

NextBuilder ==
    \/ \E tx \in TxBlobs : AddTransaction(tx)
    \/ BuildPayload

SpecBuilder == Init /\ [][NextBuilder]_vars

\* The choice of a tip account, at any time and any number of times.
NextTip == \E clock \in Clocks : RandomTipAccountCall(clock)

SpecTip == Init /\ [][NextTip]_vars

\* ---------------------------------------------------------------------
\* The tx_vault program
\* ---------------------------------------------------------------------
MAX_NAME_LEN == 32
MAX_BATCH_SIZE == 10

\* rent.minimum_balance(Vault::SPACE) under the default rent parameters:
\* (128 + 109) bytes * 3480 lamports per byte-year * 2 years.
RENT_EXEMPT_MIN == W64(1649520)

MaxVaultTx == 3

None == [some |-> FALSE]
Some(v) == [some |-> TRUE, v |-> v]

\* a + b digit by digit from the right: five digits, the carry out first.
AddDigits(a, b) ==
    LET s4 == a[4] + b[4]
        s3 == a[3] + b[3] + (s4 \div LIMB)
        s2 == a[2] + b[2] + (s3 \div LIMB)
        s1 == a[1] + b[1] + (s2 \div LIMB)
    IN  <<s1 \div LIMB, s1 % LIMB, s2 % LIMB, s3 % LIMB, s4 % LIMB>>

\* a - b (b <= a) digit by digit from the right.
SubDigits(a, b) ==
    LET d4 == a[4] - b[4]
        d3 == a[3] - b[3] - (IF d4 < 0 THEN 1 ELSE 0)
        d2 == a[2] - b[2] - (IF d3 < 0 THEN 1 ELSE 0)
        d1 == a[1] - b[1] - (IF d2 < 0 THEN 1 ELSE 0)
    IN  <<(d1 + LIMB) % LIMB, (d2 + LIMB) % LIMB, (d3 + LIMB) % LIMB,
          (d4 + LIMB) % LIMB>>

\* a < b and a <= b.
W64Less(a, b) ==
    \E i \in 1..4 : a[i] < b[i] /\ \A k \in 1..(i - 1) : a[k] = b[k]

W64Le(a, b) == ~W64Less(b, a)

\* u64::checked_add and u64::checked_sub.
CheckedAdd_Wrapping(a, b) == Some(Tail(AddDigits(a, b)))

CheckedAdd(a, b) ==
    IF AddDigits(a, b)[1] # 0 THEN None ELSE Some(Tail(AddDigits(a, b)))

CheckedSub(a, b) ==
    IF W64Less(a, b) THEN None ELSE Some(SubDigits(a, b))

\* The System Program's transfer of amount lamports: from must hold them,
\* and the balance of to must not overflow.
Transfer(lam, from, to, amount) ==
    LET debit == CheckedSub(lam[from], amount)
    IN  IF ~debit.some THEN None
        ELSE LET l1 == [lam EXCEPT ![from] = debit.v]
                 credit == CheckedAdd(l1[to], amount)
             IN  IF ~credit.some THEN None
                 ELSE Some([l1 EXCEPT ![to] = credit.v])

\* What an instruction leaves behind: the error ("none" on success), the
\* vault account and the lamports.  A failed instruction leaves the accounts
\* as they were.
VaultOk(v, lam) == [err |-> "none", vault |-> v, lamports |-> lam]
VaultErr(e) == [err |-> e, vault |-> vault, lamports |-> lamports]

\* -------------------------------------------------------- initialize_vault
NameLens == {4, MAX_NAME_LEN, MAX_NAME_LEN + 1}

\* The longest seed an address can be derived from.
MAX_SEED_LEN == 32

\* The accounts are validated before the body of the instruction runs: the
\* init constraint derives the address from the owner and the name, which
\* fails for a seed longer than MAX_SEED_LEN, and creates the account there,
\* funded by the owner up to the rent-exempt minimum.  The body then checks
\* the length of the name and fills the account.
InitializeVaultOutcome(owner, name_len) ==
    IF name_len > MAX_SEED_LEN
    THEN {VaultErr("MaxSeedLengthExceeded")}
    ELSE IF vault.exists THEN {VaultErr("AccountAlreadyInUse")}
    ELSE IF ~(name_len <= MAX_NAME_LEN) THEN {VaultErr("NameTooLong")}
    ELSE LET missing == CheckedSub(RENT_EXEMPT_MIN, lamports[VAULT])
             funded == IF missing.some
                       THEN Transfer(lamports, owner, VAULT, missing.v)
                       ELSE Some(lamports)
         IN  IF ~funded.some THEN {VaultErr("InsufficientLamports")}
             ELSE {VaultOk([exists |-> TRUE, owner |-> owner,
                            name_len |-> name_len,
                            total_deposited |-> W64(0),
                            total_withdrawn |-> W64(0),
                            tx_count |-> W64(0)],
                           funded.v)}

\* One vault is followed from its creation to its closing: none is created
\* once lamports have changed hands.
FirstVault == vault.exists \/ lamports = InitialLamports

InitializeVault(owner, name_len) ==
    /\ FirstVault
    /\ vault.exists => vault.owner = owner
    /\ \E out \in InitializeVaultOutcome(owner, name_len) :
          /\ vault' = out.vault
          /\ lamports' = out.lamports
          /\ vault_call' = [op |-> "initialize_vault", signer |-> owner,
                            name_len |-> name_len, err |-> out.err]
    /\ UNCHANGED callVars
    /\ UNCHANGED feeVars
    /\ UNCHANGED tipVars
    /\ UNCHANGED tasks

\* The counter of processed transactions is followed up to MaxVaultTx, and
\* again in its upper half, where it stops by itself at u64::MAX.
MayCount(count) ==
    \/ W64Less(count, W64(MaxVaultTx))
    \/ W64Le(W64Pow63Plus(0), count)

\* ----------------------------------------------------------------- deposit
DepositAmounts == {W64(0), W64(1), W64Pow63Plus(0), W64_MAX}

DepositOutcome(depositor, amount) ==
    IF ~vault.exists THEN VaultErr("AccountNotInitialized")
    ELSE IF amount = W64(0) THEN VaultErr("ZeroAmount")
    ELSE LET moved == Transfer(lamports, depositor, VAULT, amount)
             total == CheckedAdd(vault.total_deposited, amount)
             count == CheckedAdd(vault.tx_count, W64(1))
         IN  IF ~moved.some THEN VaultErr("TransferFailed")
             ELSE IF ~total.some \/ ~count.some THEN VaultErr("Overflow")
             ELSE VaultOk([vault EXCEPT !.total_deposited = total.v,
                                        !.tx_count = count.v],
                          moved.v)

Deposit(depositor, amount) ==
    /\ MayCount(vault.tx_count)
    /\ LET out == DepositOutcome(depositor, amount)
       IN  /\ vault' = out.vault
           /\ lamports' = out.lamports
           /\ vault_call' = [op |-> "deposit", signer |-> depositor,
                             amount |-> amount, err |-> out.err]
    /\ UNCHANGED callVars
    /\ UNCHANGED feeVars
    /\ UNCHANGED tipVars
    /\ UNCHANGED tasks

\* ----------------------------------------------------------- execute_batch
\* The three require! on the shape of the arguments, in order.
ValidateBatch(recipients, amounts) ==
    IF Len(recipients) # Len(amounts) THEN "LengthMismatch"
    ELSE IF Len(recipients) = 0 THEN "EmptyBatch"
    ELSE IF ~(Len(recipients) <= MAX_BATCH_SIZE) THEN "BatchTooLarge"
    ELSE "none"

\* amounts.iter().try_fold(0u64, |acc, &amt| acc.checked_add(amt))
\* (the accumulator is taken as a value before it is used)
RECURSIVE SumFrom(_, _, _)
SumFrom(amounts, i, acc0) ==
    CHOOSE r \in
        {IF ~acc.some \/ i > Len(amounts) THEN acc
         ELSE SumFrom(amounts, i + 1, CheckedAdd(acc.v, amounts[i])) :
            acc \in {acc0}} : TRUE

SumAmounts_FirstOnly(amounts) ==
    IF Len(amounts) = 0 THEN Some(W64(0)) ELSE Some(amounts[1])

SumAmounts(amounts) == SumFrom(amounts, 1, Some(W64(0)))

\* vault_info.lamports().checked_sub(rent_exempt_min)
Available_IgnoreRent(lam, min) == Some(lam)

Available(lam, min) == CheckedSub(lam, min)

\* The loop over the recipients from position i: zero amounts are skipped;
\* the recipient must be among the remaining accounts and writable; the
\* transfer is a CPI to the System Program signed by the vault, which the
\* runtime carries out or rejects (cpi).
TransferStep(lam, recipient, amount, remaining, cpi) ==
    IF recipient \notin remaining.keys
    THEN [err |-> "AccountNotEnoughKeys", lamports |-> lam]
    ELSE IF recipient \notin remaining.writable
    THEN [err |-> "RecipientNotWritable", lamports |-> lam]
    ELSE IF cpi # "ok" \/ ~Transfer(lam, VAULT, recipient, amount).some
    THEN [err |-> "TransferFailed", lamports |-> lam]
    ELSE [err |-> "none",
          lamports |-> Transfer(lam, VAULT, recipient, amount).v]

RECURSIVE TransferAll(_, _, _, _, _, _)
TransferAll(lam0, recipients, amounts, i, remaining, cpi) ==
    CHOOSE r \in
        {IF i > Len(recipients) THEN [err |-> "none", lamports |-> lam]
         ELSE IF amounts[i] = W64(0)
         THEN TransferAll(lam, recipients, amounts, i + 1, remaining, cpi)
         ELSE IF TransferStep(lam, recipients[i], amounts[i],
                              remaining, cpi).err # "none"
         THEN TransferStep(lam, recipients[i], amounts[i], remaining, cpi)
         ELSE TransferAll(TransferStep(lam, recipients[i], amounts[i],
                                       remaining, cpi).lamports,
                          recipients, amounts, i + 1, remaining, cpi) :
            lam \in {lam0}} : TRUE

\* has_one = owner: the signer is the owner the vault records.
HasOne_AnySigner(v, owner) == TRUE

HasOne(v, owner) == v.owner = owner

ExecuteBatchOutcome(owner, recipients, amounts, remaining, cpi) ==
    IF ~vault.exists THEN VaultErr("AccountNotInitialized")
    ELSE IF ~HasOne(vault, owner) THEN VaultErr("ConstraintHasOne")
    ELSE IF ValidateBatch(recipients, amounts) # "none"
    THEN VaultErr(ValidateBatch(recipients, amounts))
    ELSE IF ~SumAmounts(amounts).some THEN VaultErr("Overflow")
    ELSE IF ~Available(lamports[VAULT], RENT_EXEMPT_MIN).some
    THEN VaultErr("InsufficientFunds")
    ELSE IF ~W64Le(SumAmounts(amounts).v,
                   Available(lamports[VAULT], RENT_EXEMPT_MIN).v)
    THEN VaultErr("InsufficientFunds")
    ELSE LET moved == TransferAll(lamports, recipients, amounts, 1,
                                  remaining, cpi)
             total == CheckedAdd(vault.total_withdrawn, SumAmounts(amounts).v)
             count == CheckedAdd(vault.tx_count, W64(1))
         IN  IF moved.err # "none" THEN VaultErr(moved.err)
             ELSE IF ~total.some \/ ~count.some THEN VaultErr("Overflow")
             ELSE VaultOk([vault EXCEPT !.total_withdrawn = total.v,
                                        !.tx_count = count.v],
                          moved.lamports)

\* n copies of x.
Repeat(x, n) == [i \in 1..n |-> x]

Batch(r, a) == [recipients |-> r, amounts |-> a]

\* Lists of every length around the three checks on the shape.
ShapeBatches ==
    {Batch(Repeat("bob", n), Repeat(W64(1), m)) :
        n \in {0, 1, MAX_BATCH_SIZE, MAX_BATCH_SIZE + 1},
        m \in {0, 1, MAX_BATCH_SIZE, MAX_BATCH_SIZE + 1}}

\* Amounts at both ends of u64, to one and to two recipients, the vault
\* itself or the same recipient twice among them.
BatchAmounts == {W64(0), W64(1), W64Pow63Plus(0), W64_MAX}

AmountBatches ==
    {Batch(<<"bob">>, <<a>>) : a \in BatchAmounts}
    \cup {Batch(<<"bob", VAULT>>, <<a, b>>) :
            a \in BatchAmounts, b \in BatchAmounts}
    \cup {Batch(<<"bob", "bob">>, <<a, a>>) : a \in BatchAmounts}

\* ctx.remaining_accounts: the keys passed and those marked writable.
AllWritable == [keys |-> {"bob", VAULT}, writable |-> {"bob", VAULT}]
BobReadOnly == [keys |-> {"bob", VAULT}, writable |-> {VAULT}]
BobMissing == [keys |-> {VAULT}, writable |-> {VAULT}]

BatchInput(batch, remaining, cpi) ==
    [batch |-> batch, remaining |-> remaining, cpi |-> cpi]

\* The instructions sent: every batch with all accounts passed and the
\* transfers carried out, and some with an account missing or read-only or
\* with the transfer rejected by the runtime.
BatchInputs ==
    {BatchInput(x, AllWritable, "ok") : x \in ShapeBatches \cup AmountBatches}
    \cup {BatchInput(x, r, "ok") :
            x \in {Batch(<<"bob">>, <<W64(1)>>),
                   Batch(<<"bob", VAULT>>, <<W64(0), W64(1)>>)},
            r \in {BobReadOnly, BobMissing}}
    \cup {BatchInput(x, AllWritable, "rejected") :
            x \in {Batch(<<"bob">>, <<W64(1)>>),
                   Batch(<<"bob", VAULT>>, <<W64(0), W64(0)>>)}}

ExecuteBatch(owner, batch, remaining, cpi) ==
    /\ MayCount(vault.tx_count)
    /\ LET out == ExecuteBatchOutcome(owner, batch.recipients, batch.amounts,
                                      remaining, cpi)
       IN  /\ vault' = out.vault
           /\ lamports' = out.lamports
           /\ vault_call' = [op |-> "execute_batch", signer |-> owner,
                             recipients |-> batch.recipients,
                             amounts |-> batch.amounts,
                             remaining |-> remaining, cpi |-> cpi,
                             err |-> out.err]
    /\ UNCHANGED callVars
    /\ UNCHANGED feeVars
    /\ UNCHANGED tipVars
    /\ UNCHANGED tasks

NextVault ==
    \/ \E w \in Wallets, n \in NameLens : InitializeVault(w, n)
    \/ \E w \in Wallets, amount \in DepositAmounts : Deposit(w, amount)
    \/ \E w \in Wallets, x \in BatchInputs :
          ExecuteBatch(w, x.batch, x.remaining, x.cpi)

\* No vault yet; the other components at rest.
InitVault == Init /\ max_retries = MaxRetries

SpecVault == InitVault /\ [][NextVault]_vars

\* ------------------------------------------------------------- close_vault
\* The body only emits an event; the close constraint then moves every
\* lamport of the vault to the owner and gives the emptied account back to
\* the System Program.
CloseVaultOutcome(owner) ==
    IF ~vault.exists THEN VaultErr("AccountNotInitialized")
    ELSE IF ~HasOne(vault, owner) THEN VaultErr("ConstraintHasOne")
    ELSE LET credit == CheckedAdd(lamports[owner], lamports[VAULT])
         IN  IF ~credit.some THEN VaultErr("ArithmeticOverflow")
             ELSE VaultOk(NoVault,
                          [lamports EXCEPT ![owner] = credit.v,
                                           ![VAULT] = W64(0)])

CloseVault(owner) ==
    /\ LET out == CloseVaultOutcome(owner)
       IN  /\ vault' = out.vault
           /\ lamports' = out.lamports
           /\ vault_call' = [op |-> "close_vault", signer |-> owner,
                             err |-> out.err]
    /\ UNCHANGED callVars
    /\ UNCHANGED feeVars
    /\ UNCHANGED tipVars
    /\ UNCHANGED tasks

\* The life of a vault, from its creation to its closing, with batches to
\* bob and to the vault itself.
ClosingBatches ==
    {BatchInput(x, AllWritable, "ok") :
        x \in {Batch(<<"bob">>, <<W64(1)>>),
               Batch(<<"bob">>, <<W64Pow63Plus(0)>>),
               Batch(<<"bob", VAULT>>, <<W64(1), W64(1)>>)}}

NextClose ==
    \/ \E w \in Wallets : InitializeVault(w, MAX_NAME_LEN)
    \/ \E w \in Wallets, amount \in DepositAmounts : Deposit(w, amount)
    \/ \E w \in Wallets, x \in ClosingBatches :
          ExecuteBatch(w, x.batch, x.remaining, x.cpi)
    \/ \E w \in Wallets : CloseVault(w)

SpecClose == InitVault /\ [][NextClose]_vars

\* ------------------------------------------------ deposit on any vault
\* deposit on a vault at any point of its life: just created, or after a
\* history of deposits and batches that has brought its counters to the
\* middle or to the end of u64.  alice owns the vault, which holds the
\* rent-exempt minimum; the lamports in existence stay below 2^64.
W64_MAX_LESS_1 == <<LIMB - 1, LIMB - 1, LIMB - 1, LIMB - 2>>

VaultAfter(deposited, withdrawn, count) ==
    [exists |-> TRUE, owner |-> "alice", name_len |-> 4,
     total_deposited |-> deposited, total_withdrawn |-> withdrawn,
     tx_count |-> count]

VaultsInUse ==
    {VaultAfter(W64(0), W64(0), W64(0))}
    \cup {VaultAfter(t, t, n) :
            t \in {W64(1), W64Pow63Plus(0), W64_MAX},
            n \in {W64(2), W64_MAX_LESS_1, W64_MAX}}

LamportsInUse ==
    [a \in Accounts |->
        IF a = "alice" THEN W64Pow63Plus(350480)
        ELSE IF a = "bob" THEN W64(2000000)
        ELSE RENT_EXEMPT_MIN]

InitDeposit ==
    /\ transactions = <<>>
    /\ max_retries = MaxRetries
    /\ last_add = "none"
    /\ call = "none"
    /\ timeout = 0
    /\ pc = "idle"
    /\ now = 0
    /\ resolved_at = 0
    /\ start = 0
    /\ attempt = 0
    /\ submit_result = NoResult
    /\ bundle_id = ""
    /\ poll_start = 0
    /\ result = NoResult
    /\ sent = 0
    /\ sleeps = 0
    /\ slept_ms = 0
    /\ last_resp = NoResp
    /\ polls = 0
    /\ poll_sleeps = 0
    /\ last_query_at = 0
    /\ last_status = NoResp
    /\ timed_out = 0
    /\ backoff = NoBackoff
    /\ pending_seen = 0
    /\ fee_call = NoFeeCall
    /\ fee_result = NoResult
    /\ tip_call = NoTipCall
    /\ tip_result = NoResult
    /\ vault \in VaultsInUse
    /\ lamports = LamportsInUse
    /\ vault_call = NoVaultCall
    /\ tasks = InitialTasks

NextDeposit ==
    \E w \in Wallets, amount \in DepositAmounts : Deposit(w, amount)

SpecDeposit == InitDeposit /\ [][NextDeposit]_vars

\* ---------------------------------------------------------------------
\* Calls on independent builders, interleaved at their suspension points
\* ---------------------------------------------------------------------
\* The value a call reports: status and attempts.
TaskResult(st, n) == [kind |-> "Ok", status |-> st, attempts |-> n]

\* `attempt`, the variable of the loop of submit, belongs to the call.
AttemptOf_Shared(ts, b) == ts[1].attempt + ts[2].attempt

AttemptOf(ts, b) == ts[b].attempt

InFlight(t) == t.pc \notin {"idle", "done"}

\* The history flag of a step of b.
Overlap(ts, b) ==
    ts[b].overlapped \/ \E o \in Builders \ {b} : InFlight(ts[o])

\* What follows the return of self.submit() with value res.
TaskAfterSubmit(t, res) ==
    IF StartsPolling(t.call, res)
    THEN IF PollCondition(0, t.timeout)
         THEN [t EXCEPT !.submit_result = res,
                        !.bundle_id = res.status.bundle_id,
                        !.elapsed = 0,
                        !.pc = "poll_sleep"]
         ELSE [t EXCEPT !.submit_result = res,
                        !.bundle_id = res.status.bundle_id,
                        !.result = TaskResult(Expired(res.status.bundle_id),
                                              res.attempts),
                        !.pc = "done"]
    ELSE [t EXCEPT !.submit_result = res, !.result = res, !.pc = "done"]

\* Entry of submit or submit_and_confirm on builder b.
TaskCall(ts, b, c, dl) ==
    LET t == [ts[b] EXCEPT !.call = c, !.timeout = dl,
                           !.overlapped = Overlap(ts, b)]
    IN  IF ~Build(t.transactions).ok
        THEN TaskAfterSubmit(t, ErrResult(Build(t.transactions).error))
        ELSE IF 1 <= t.max_retries
        THEN [t EXCEPT !.attempt = 1, !.pc = "send"]
        ELSE TaskAfterSubmit(t, TaskResult(Rejected(MAX_RETRIES_EXCEEDED),
                                           t.max_retries))

\* A direct call of build on builder b.
TaskBuild(ts, b) ==
    [ts[b] EXCEPT !.call = "build",
                  !.result = IF Build(ts[b].transactions).ok
                             THEN OkPayload(Build(ts[b].transactions).payload)
                             ELSE ErrResult(Build(ts[b].transactions).error),
                  !.pc = "done"]

\* One request of b and the match on its outcome.
TaskAttempt(ts, b, resp) ==
    LET t == [ts[b] EXCEPT !.heard = Append(@, resp),
                           !.overlapped = Overlap(ts, b)]
        c == ClassifyAttempt(resp)
    IN  IF c.do = "return"
        THEN TaskAfterSubmit(t, TaskResult(c.status, AttemptOf(ts, b)))
        ELSE IF c.do = "err"
        THEN TaskAfterSubmit(t, ErrResult(c.error))
        ELSE IF AttemptOf(ts, b) < t.max_retries
        THEN [t EXCEPT !.pc = "backoff"]
        ELSE TaskAfterSubmit(t, TaskResult(Rejected(MAX_RETRIES_EXCEEDED),
                                           t.max_retries))

\* The backoff sleep of b, then its next iteration.
TaskBackoff(ts, b) ==
    [ts[b] EXCEPT !.attempt = AttemptOf(ts, b) + 1, !.pc = "send",
                  !.overlapped = Overlap(ts, b)]

\* The sleep at the top of the polling loop of b.
TaskPollSleep(ts, b) ==
    [ts[b] EXCEPT !.elapsed = SleepUntil(@, POLL_INTERVAL_MS),
                  !.pc = "poll_query",
                  !.overlapped = Overlap(ts, b)]

\* One status query of b, the match on its value and the loop condition.
TaskPoll(ts, b, resp, lat) ==
    LET t == [ts[b] EXCEPT !.asked = Append(@, [resp |-> resp, lat |-> lat]),
                           !.elapsed = @ + lat,
                           !.overlapped = Overlap(ts, b)]
        st == CheckStatus(resp, t.bundle_id)
        n == t.submit_result.attempts
    IN  IF st.ok /\ st.status.tag = "Landed"
        THEN [t EXCEPT !.result = TaskResult(Landed(t.bundle_id,
                                                    st.status.slot), n),
                       !.pc = "done"]
        ELSE IF st.ok /\ st.status.tag = "Expired"
        THEN [t EXCEPT !.result = TaskResult(Expired(t.bundle_id), n),
                       !.pc = "done"]
        ELSE IF PollCondition(t.elapsed, t.timeout)
        THEN [t EXCEPT !.pc = "poll_sleep"]
        ELSE [t EXCEPT !.result = TaskResult(Expired(t.bundle_id), n),
                       !.pc = "done"]

\* Relay answers and timeouts used with two builders.
TaskSubmitResponses ==
    { [kind |-> "conn_err"],
      [kind |-> "json", http_ok |-> TRUE,
       body |-> JObj([result |-> JStr("bundle-1")])],
      [kind |-> "json", http_ok |-> TRUE,
       body |-> JObj([error |-> ErrObj(JStr(BLOCKHASH_NOT_FOUND))])],
      [kind |-> "json", http_ok |-> TRUE,
       body |-> JObj([error |-> ErrObj(JStr(<<"rate", "limited">>))])] }

TaskStatusResponses ==
    { [kind |-> "conn_err"],
      [kind |-> "json", body |-> JObj([result |-> JObj([value |-> JArr(<<>>)])])],
      [kind |-> "json",
       body |-> JObj([result |-> JObj([value |->
                   JArr(<<StatusRec(JStr("finalized"), JNum(42))>>)])])],
      [kind |-> "json",
       body |-> JObj([result |-> JObj([value |->
                   JArr(<<StatusRec(JStr("processed"), JNum(42))>>)])])] }

TaskTimeouts == {0, 1000}
TaskLatencies == {0, 600}

TaskFrame ==
    /\ UNCHANGED callVars
    /\ UNCHANGED feeVars
    /\ UNCHANGED tipVars
    /\ UNCHANGED vaultVars

ConcurrentCall(b, c, dl) ==
    /\ tasks[b].pc = "idle"
    /\ tasks' = [tasks EXCEPT ![b] = TaskCall(tasks, b, c, dl)]
    /\ TaskFrame

ConcurrentBuild(b) ==
    /\ tasks[b].pc = "idle"
    /\ tasks' = [tasks EXCEPT ![b] = TaskBuild(tasks, b)]
    /\ TaskFrame

ConcurrentAttempt(b, resp) ==
    /\ tasks[b].pc = "send"
    /\ tasks' = [tasks EXCEPT ![b] = TaskAttempt(tasks, b, resp)]
    /\ TaskFrame

ConcurrentBackoff(b) ==
    /\ tasks[b].pc = "backoff"
    /\ tasks' = [tasks EXCEPT ![b] = TaskBackoff(tasks, b)]
    /\ TaskFrame

ConcurrentPollSleep(b) ==
    /\ tasks[b].pc = "poll_sleep"
    /\ tasks' = [tasks EXCEPT ![b] = TaskPollSleep(tasks, b)]
    /\ TaskFrame

ConcurrentPoll(b, resp, lat) ==
    /\ tasks[b].pc = "poll_query"
    /\ tasks' = [tasks EXCEPT ![b] = TaskPoll(tasks, b, resp, lat)]
    /\ TaskFrame

NextConcurrent ==
    \/ \E b \in Builders : ConcurrentCall(b, "submit", 0)
    \/ \E b \in Builders, dl \in TaskTimeouts :
          ConcurrentCall(b, "submit_and_confirm", dl)
    \/ \E b \in Builders : ConcurrentBuild(b)
    \/ \E b \in Builders, resp \in TaskSubmitResponses :
          ConcurrentAttempt(b, resp)
    \/ \E b \in Builders : ConcurrentBackoff(b)
    \/ \E b \in Builders : ConcurrentPollSleep(b)
    \/ \E b \in Builders, resp \in TaskStatusResponses, lat \in TaskLatencies :
          ConcurrentPoll(b, resp, lat)

\* Two builders with no call made; the other components at rest.
InitConcurrent == Init /\ max_retries = MaxRetries

SpecConcurrent == InitConcurrent /\ [][NextConcurrent]_vars

\* ---------------------------------------------------------------------
\* The retry loop of submit over the whole range of max_retries
\* ---------------------------------------------------------------------
\* submit on a bundle of one transaction, against a relay that fails every
\* request in a retryable way; max_retries is any u8.  The clock is left
\* out: only the attempts and the computed delays are followed.
InitRetry ==
    /\ transactions = <<<<0, 1>>>>
    /\ max_retries \in 0..U8_MAX
    /\ last_add = "ok"
    /\ call = "none"
    /\ timeout = 0
    /\ pc = "idle"
    /\ now = 0
    /\ resolved_at = 0
    /\ start = 0
    /\ attempt = 0
    /\ submit_result = NoResult
    /\ bundle_id = ""
    /\ poll_start = 0
    /\ result = NoResult
    /\ sent = 0
    /\ sleeps = 0
    /\ slept_ms = 0
    /\ last_resp = NoResp
    /\ timed_out = 0
    /\ backoff = NoBackoff
    /\ polls = 0
    /\ poll_sleeps = 0
    /\ last_query_at = 0
    /\ last_status = NoResp
    /\ pending_seen = 0
    /\ fee_call = NoFeeCall
    /\ fee_result = NoResult
    /\ tip_call = NoTipCall
    /\ tip_result = NoResult
    /\ vault = NoVault
    /\ lamports = InitialLamports
    /\ vault_call = NoVaultCall
    /\ tasks = InitialTasks

\* for attempt in 1..=self.max_retries: the first iteration, or none.
RetryCall ==
    /\ pc = "idle"
    /\ call' = "submit"
    /\ IF 1 <= max_retries
       THEN /\ attempt' = 1
            /\ pc' = "send"
            /\ UNCHANGED result
       ELSE /\ pc' = "done"
            /\ result' = [kind |-> "Ok",
                          status |-> Rejected(MAX_RETRIES_EXCEEDED),
                          attempts |-> max_retries]
            /\ UNCHANGED attempt
    /\ UNCHANGED <<sent, sleeps, backoff>>
    /\ UNCHANGED <<transactions, max_retries, last_add, timeout, now,
                   resolved_at, start,
                   submit_result, slept_ms, last_resp, timed_out>>
    /\ UNCHANGED pollVars
    /\ UNCHANGED bundleFrame

\* A request that fails, and the computation of the delay that follows it
\* when the attempt is not the last.
FailedAttempt ==
    /\ pc = "send"
    /\ sent' = sent + 1
    /\ IF attempt < max_retries
       THEN /\ \E o \in BackoffOutcomes(attempt) :
                 /\ backoff' = o
                 /\ pc' = IF o = Panicked THEN "panicked" ELSE "backoff"
            /\ UNCHANGED result
       ELSE /\ pc' = "done"
            /\ result' = [kind |-> "Ok",
                          status |-> Rejected(MAX_RETRIES_EXCEEDED),
                          attempts |-> max_retries]
            /\ UNCHANGED backoff
    /\ UNCHANGED <<call, attempt, sleeps>>
    /\ UNCHANGED <<transactions, max_retries, last_add, timeout, now,
                   resolved_at, start,
                   submit_result, slept_ms, last_resp, timed_out>>
    /\ UNCHANGED pollVars
    /\ UNCHANGED bundleFrame

\* The sleep, then the next iteration.
RetrySleep ==
    /\ pc = "backoff"
    /\ sleeps' = sleeps + 1
    /\ attempt' = attempt + 1
    /\ pc' = "send"
    /\ UNCHANGED <<call, sent, backoff, result>>
    /\ UNCHANGED <<transactions, max_retries, last_add, timeout, now,
                   resolved_at, start,
                   submit_result, slept_ms, last_resp, timed_out>>
    /\ UNCHANGED pollVars
    /\ UNCHANGED bundleFrame

NextRetry == RetryCall \/ FailedAttempt \/ RetrySleep

SpecRetry == InitRetry /\ [][NextRetry]_vars

\* Every request resolves, by a response or by its timeout, every sleep
\* ends and the runtime resumes the task: a call that can take a step
\* takes it.
SpecRetryFair == SpecRetry /\ WF_vars(NextRetry)

\* ---------------------------------------------------------------------
\* Priority fee estimator: the RPC response and the estimate
\* ---------------------------------------------------------------------
\* Bounds of the fee specification.
MaxSamples == 3
MaxLen == 26

DEFAULT_PRIORITY_FEE_MICROLAMPORTS == U64(10000)

Strategies == {"Economy", "Standard", "Fast", "Turbo"}

\* A mapping that sends every strategy to the median.
StrategyPercentile_AlwaysMedian(s) == 50

\* FeeStrategy::percentile
StrategyPercentile(s) ==
    CASE s = "Economy" -> 25
      [] s = "Standard" -> 50
      [] s = "Fast" -> 75
      [] s = "Turbo" -> 90

\* A JSON number given as a u64.
JU64(x) == [t |-> "u64", v |-> x]

\* Prioritization fees the node may report, and the multipliers of
\* estimate_with_buffer: 1.0, 1.5, 2.0 and 1.125.
FeeValues == {U64(0), U64(100), U64(5000), U64Pow2Plus(53, 1), U64_MAX}
F64_ONE == [num |-> 1, exp2 |-> 0]
Multipliers ==
    {F64_ONE, [num |-> 3, exp2 |-> -1], [num |-> 1, exp2 |-> 1],
     [num |-> 9, exp2 |-> -3]}

\* One element of the result array of getRecentPrioritizationFees.
FeeEntry(slot, fee) ==
    JObj([slot |-> JNum(slot), prioritizationFee |-> JU64(fee)])

FeeLists == UNION {[1..n -> FeeValues] : n \in 0..MaxSamples}
EntryList(fees) == JArr([i \in 1..Len(fees) |-> FeeEntry(i, fees[i])])

\* Bodies of the RPC response: a result array of entries, an array with an
\* entry that lacks its fee, a result that is no array, a null result and
\* no result.
FeeBodies ==
    {JObj([result |-> EntryList(fees)]) : fees \in FeeLists}
      \cup {JObj([result |-> JArr(<<FeeEntry(1, U64(100)),
                                   JObj([slot |-> JNum(2)])>>)]),
            JObj([result |-> JStr("none")]),
            JObj([result |-> JNull]),
            JObj([error |-> ErrObj(UNKNOWN_ERROR)])}

\* What the HTTP call gives: no response, a body that is not JSON, or a
\* JSON body under some HTTP status.
FeeResponses ==
    {[kind |-> "send_error"], [kind |-> "bad_json"]}
      \cup {[kind |-> "json", http_ok |-> ok, body |-> b] :
               ok \in BOOLEAN, b \in FeeBodies}

FeeErr(e) == [kind |-> "Err", error |-> e]

\* response["result"]: Null when the member is missing.
Index(j, key) == IF Get(j, key) = JAbsent THEN JNull ELSE Get(j, key)

\* serde_json::from_value::<Vec<PrioritizationFeeEntry>> succeeds.
IsFeeEntry(j) ==
    /\ j.t = "obj"
    /\ IsU64(Get(j, "slot"))
    /\ Get(j, "prioritizationFee").t = "u64"

IsEntryList(j) == j.t = "arr" /\ \A i \in 1..Len(j.v) : IsFeeEntry(j.v[i])

\* A filter that keeps the zero fees.
IsSample_KeepZero(fee) == TRUE

\* .filter(|&fee| fee > 0)
IsSample(fee) == BitsLess(U64(0), fee)

\* A collection that stops at the first sample.
KeepSamples_FirstOnly(all) ==
    IF SelectSeq(all, IsSample) = <<>> THEN <<>>
    ELSE <<Head(SelectSeq(all, IsSample))>>

\* .into_iter().map(..).filter(|&fee| fee > 0).collect()
KeepSamples(all) == SelectSeq(all, IsSample)

\* fetch_recent_fees: Ok(the non-zero fees in response order) or Err.
FetchRecentFees(resp) ==
    IF resp.kind = "send_error"
    THEN FeeErr("Failed to call getRecentPrioritizationFees")
    ELSE IF resp.kind = "bad_json"
    THEN FeeErr("Failed to parse RPC response")
    ELSE IF ~IsEntryList(Index(resp.body, "result"))
    THEN FeeErr("Failed to deserialize fee entries")
    ELSE LET entries == Index(resp.body, "result").v
             all == [i \in 1..Len(entries) |->
                        Get(entries[i], "prioritizationFee").v]
         IN  [kind |-> "Ok", fees |-> KeepSamples(all)]

\* fees.sort_unstable(): ascending order.
RECURSIVE Insert(_, _)
Insert(x, sorted) ==
    IF sorted = <<>> THEN <<x>>
    ELSE IF U64Le(x, Head(sorted)) THEN <<x>> \o sorted
    ELSE <<Head(sorted)>> \o Insert(x, Tail(sorted))

RECURSIVE InsertAll(_, _)
InsertAll(fees, sorted) ==
    IF fees = <<>> THEN sorted
    ELSE InsertAll(Tail(fees), Insert(Head(fees), sorted))

\* An estimate that forgets to sort.
SortFees_Unsorted(fees) == fees

SortFees(fees) == InsertAll(fees, <<>>)

\* The index computed by percentile before it is clamped:
\* (pct as f64 / 100.0 * (len - 1) as f64).round() as usize
PercentileIndex(pct, len) ==
    BitsNat(Strip(F64AsU64(F64Round(
        F64Mul(F64Div(pct, 100), [num |-> len - 1, exp2 |-> 0])))))

\* A percentile that answers with the fallback fee.
Percentile_AlwaysFallback(sorted_fees, pct) ==
    DEFAULT_PRIORITY_FEE_MICROLAMPORTS

\* PriorityFeeEstimator::percentile
Percentile(sorted_fees, pct) ==
    IF sorted_fees = <<>> THEN U64(0)
    ELSE sorted_fees[Min(PercentileIndex(pct, Len(sorted_fees)),
                         Len(sorted_fees) - 1) + 1]

OkEstimate(fee, strategy, n, pcts) ==
    [kind |-> "Ok", recommended_fee |-> fee, strategy |-> strategy,
     slots_sampled |-> n, percentiles |-> pcts]

\* PriorityFeeEstimator::estimate, given what the RPC call gives.
Estimate(strategy, resp) ==
    LET fetched == FetchRecentFees(resp)
    IN  IF fetched.kind = "Err" THEN fetched
        ELSE IF fetched.fees = <<>>
        THEN OkEstimate(DEFAULT_PRIORITY_FEE_MICROLAMPORTS, strategy, 0,
                        [p25 |-> U64(0), p50 |-> U64(0), p75 |-> U64(0),
                         p90 |-> U64(0), max |-> U64(0)])
        ELSE LET fees == SortFees(fetched.fees)
             IN  OkEstimate(Percentile(fees, StrategyPercentile(strategy)),
                            strategy, Len(fees),
                            [p25 |-> Percentile(fees, 25),
                             p50 |-> Percentile(fees, 50),
                             p75 |-> Percentile(fees, 75),
                             p90 |-> Percentile(fees, 90),
                             max |-> fees[Len(fees)]])

\* (fee as f64 * buffer_multiplier) as u64
BufferedFee(fee, multiplier) ==
    F64AsU64(F64IntegerBits(F64Mul(F64FromU64(fee), multiplier)))

\* PriorityFeeEstimator::estimate_with_buffer
EstimateWithBuffer(strategy, multiplier, resp) ==
    LET estimate == Estimate(strategy, resp)
    IN  IF estimate.kind = "Err" THEN estimate
        ELSE [estimate EXCEPT
                 !.recommended_fee = BufferedFee(@, multiplier)]

\* The ascending sequence 100, 200, ..., 100 * n.
Ramp(n) == [i \in 1..n |-> U64(100 * i)]

\* ------------------------------------------------------ estimator calls
EstimateCall(strategy, resp) ==
    /\ fee_call = NoFeeCall
    /\ fee_call' = [op |-> "estimate", strategy |-> strategy, resp |-> resp]
    /\ fee_result' = Estimate(strategy, resp)
    /\ UNCHANGED callVars
    /\ UNCHANGED feeFrame

EstimateWithBufferCall(strategy, multiplier, resp) ==
    /\ fee_call = NoFeeCall
    /\ fee_call' = [op |-> "estimate_with_buffer", strategy |-> strategy,
                    multiplier |-> multiplier, resp |-> resp]
    /\ fee_result' = EstimateWithBuffer(strategy, multiplier, resp)
    /\ UNCHANGED callVars
    /\ UNCHANGED feeFrame

\* fetch_recent_fees on its own.
FetchRecentFeesCall(resp) ==
    /\ fee_call = NoFeeCall
    /\ fee_call' = [op |-> "fetch_recent_fees", resp |-> resp]
    /\ fee_result' = FetchRecentFees(resp)
    /\ UNCHANGED callVars
    /\ UNCHANGED feeFrame

\* percentile called on a sorted slice, as the unit tests call it.
PercentileCall(sorted_fees, pct) ==
    /\ fee_call = NoFeeCall
    /\ fee_call' = [op |-> "percentile", sorted_fees |-> sorted_fees,
                    pct |-> pct]
    /\ fee_result' = [kind |-> "Value", value |-> Percentile(sorted_fees, pct)]
    /\ UNCHANGED callVars
    /\ UNCHANGED feeFrame

NextFee ==
    \/ \E s \in Strategies, r \in FeeResponses : EstimateCall(s, r)
    \/ \E s \in Strategies, m \in Multipliers, r \in FeeResponses :
          EstimateWithBufferCall(s, m, r)
    \/ \E r \in FeeResponses : FetchRecentFeesCall(r)
    \/ \E n \in 0..MaxLen, p \in 0..100 : PercentileCall(Ramp(n), p)

\* The estimator needs no bundle builder: Config::default has max_retries 3.
InitFee == Init /\ max_retries = MaxRetries

SpecFee == InitFee /\ [][NextFee]_vars


\* =================================================================
\* Properties
\* =================================================================

\* The last sendBundle response carries an error whose message contains
\* 'already processed' or 'blockhash not found'.
CarriesTerminalError ==
    /\ last_resp.kind = "json"
    /\ "error" \in DOMAIN last_resp.body.v
    /\ last_resp.body.v.error.t = "obj"
    /\ "message" \in DOMAIN last_resp.body.v.error.v
    /\ last_resp.body.v.error.v.message.t = "str"
    /\ \/ Contains(last_resp.body.v.error.v.message.v, <<"already", "processed">>)
       \/ Contains(last_resp.body.v.error.v.message.v,
                   <<"blockhash", "not", "found">>)

TerminalMessage == last_resp.body.v.error.v.message.v

\* The last sendBundle response has a successful HTTP status and a result field.
CarriesResult ==
    /\ last_resp.kind = "json"
    /\ last_resp.http_ok
    /\ "result" \in DOMAIN last_resp.body.v

\* submit returned Rejected{reason} on the attempt whose response is last_resp:
\* attempts counts that attempt, no request and no backoff sleep followed it.
RejectedAtLastAttempt(reason) ==
    /\ submit_result.kind = "Ok"
    /\ submit_result.status = Rejected(reason)
    /\ submit_result.attempts = sent
    /\ attempt = sent
    /\ sleeps = sent - 1
    /\ pc = "done"
    /\ result = submit_result

\* C1 (as stated): whenever the response of attempt k carries an error whose
\* message contains 'already processed' or 'blockhash not found', submit has
\* returned Rejected{reason = that message} with attempts = k, and no further
\* request or backoff sleep follows.
C1_AsStated ==
    CarriesTerminalError => RejectedAtLastAttempt(TerminalMessage)

\* C1 (amended): the same, for a response that is not an accepted one (a
\* successful HTTP status together with a result field is classified first
\* and yields Accepted).
C1_TerminalErrorRejects ==
    (CarriesTerminalError /\ ~CarriesResult)
        => RejectedAtLastAttempt(TerminalMessage)

\* C1 witness: a terminal error answered the second attempt, after one
\* retryable attempt and one backoff sleep, and submit returned Rejected.
C1_Witness ==
    /\ CarriesTerminalError
    /\ ~CarriesResult
    /\ sent = 2
    /\ sleeps = 1
    /\ pc = "done"
    /\ result.kind = "Ok"
    /\ result.status.tag = "Rejected"
    /\ result.attempts = 2

\* 100 + 200 + ... : the delays between n attempts.
RECURSIVE DelaySum(_)
DelaySum(n) == IF n <= 1 THEN 0 ELSE DelaySum(n - 1) + 100 * 2 ^ (n - 2)

\* Every one of the max_retries requests of the call timed out.
AllTimedOut ==
    /\ submit_result # NoResult
    /\ max_retries >= 1
    /\ sent = max_retries
    /\ timed_out = sent

C3_ResultAccepts ==
    CarriesResult =>
        /\ submit_result.kind = "Ok"
        /\ submit_result.status.tag = "Accepted"
        /\ submit_result.attempts = sent
        /\ attempt = sent
        /\ sleeps = sent - 1
        /\ pc \notin {"send", "backoff"}

\* C3 witness: the third attempt was accepted after two failed ones.
C3_Witness ==
    /\ CarriesResult
    /\ sent = 3
    /\ sleeps = 2
    /\ call = "submit"
    /\ pc = "done"
    /\ result.kind = "Ok"
    /\ result.status.tag = "Accepted"
    /\ result.attempts = 3

\* The last sendBundle request ended in a transport-level failure: a
\* connection error, a timeout, or a body that cannot be parsed.
TransportLevelFailure ==
    last_resp.kind \in {"conn_err", "timeout", "malformed"}

\* C4 (as stated): a transport-level failure on attempt k < max_retries does
\* not make submit return; the call goes on to attempt k + 1.
C4_AsStated ==
    (TransportLevelFailure /\ sent < max_retries) =>
        /\ submit_result = NoResult
        /\ \/ pc = "backoff" /\ attempt = sent
           \/ pc = "send" /\ attempt = sent + 1

\* C5 (as stated): on a non-empty bundle a finished call has returned a
\* BundleSubmissionResult, never an error, and its attempts field is the
\* number of sendBundle requests sent.
C5_AsStated ==
    (pc = "done" /\ call # "build" /\ transactions # <<>>) =>
        /\ result.kind = "Ok"
        /\ result.attempts = sent

\* The polling loop of submit_and_confirm has ended with this status; attempts
\* is the one of the submission and elapsed the time since polling began.
PollingReturned(st) ==
    /\ pc = "done"
    /\ result = OkResult(st, submit_result.attempts, now - poll_start)

\* The polling loop goes on: nothing returned, the next sleep or query is due.
PollingContinues ==
    /\ pc \in {"poll_sleep", "poll_query"}
    /\ result = NoResult

\* The last query was answered, or failed, in a way that is not terminal: the
\* loop went on if the deadline had not elapsed when the query resolved, and
\* otherwise the call returned Expired because of the deadline.
TreatedAsPending ==
    \/ PollingContinues
    \/ /\ PollingReturned(Expired(bundle_id))
       /\ result.elapsed_ms >= timeout

\* The last status query reports 'confirmed' or 'finalized' with a slot.
ReportsLandedWithSlot ==
    /\ IsLandedRecord(last_status)
    /\ "slot" \in DOMAIN FirstRecord(last_status).v
    /\ FirstRecord(last_status).v.slot.t = "num"
    /\ FirstRecord(last_status).v.slot.v >= 0

ReportedSlot == FirstRecord(last_status).v.slot.v

\* C6: when a status query reports 'confirmed' or 'finalized' with slot s,
\* submit_and_confirm returns Landed{bundle_id, slot = s} and issues no
\* further query; every query was preceded by exactly one poll-interval
\* sleep, so a report on the first poll returns after one sleep and one query.
C6_ConfirmedLands ==
    ReportsLandedWithSlot =>
        /\ PollingReturned(Landed(bundle_id, ReportedSlot))
        /\ submit_result.status = Accepted(bundle_id)
        /\ poll_sleeps = polls
        /\ now - poll_start >= polls * 500

\* C6 witness: 'finalized' with slot 42 on the first poll.
C6_Witness ==
    /\ ReportsLandedWithSlot
    /\ FirstRecord(last_status).v.confirmation_status = JStr("finalized")
    /\ polls = 1
    /\ poll_sleeps = 1
    /\ pc = "done"
    /\ result.status.tag = "Landed"
    /\ result.status.slot = 42
    /\ result.elapsed_ms = 500

\* Every status query of the finished call reported a pending status.
AllPolledPending ==
    /\ pc = "done"
    /\ call = "submit_and_confirm"
    /\ submit_result.kind = "Ok"
    /\ submit_result.status.tag = "Accepted"
    /\ pending_seen = polls

\* C7 (as stated): if every status query reports a pending status,
\* submit_and_confirm returns Expired{bundle_id}, the time spent in the
\* polling loop is not more than the deadline, and a 1 s deadline gives
\* Expired after 2 polls.
C7_AsStated ==
    AllPolledPending =>
        /\ result.kind = "Ok"
        /\ result.status = Expired(bundle_id)
        /\ result.elapsed_ms <= timeout
        /\ (timeout = 1000 => polls = 2)

\* C8 (as stated): every status query begins strictly before the deadline,
\* and a deadline of 0 gives Expired with no query at all.
C8_AsStated ==
    /\ polls >= 1 => last_query_at < timeout
    /\ (call = "submit_and_confirm" /\ timeout = 0 /\ submit_result.kind = "Ok"
           /\ submit_result.status.tag = "Accepted")
         => (polls = 0 /\ PollingReturned(Expired(bundle_id)))

\* C9: a status query that fails (transport failure or unparsable body) is
\* treated as Pending: it never ends the loop or sets the status by itself;
\* the loop goes on unless the deadline has elapsed.
C9_FailedQueryIsPending ==
    (polls >= 1 /\ IsFailedQuery(last_status)) => TreatedAsPending

\* C9 witness: a query failed before the deadline and the loop went on to
\* its next sleep.
C9_Witness ==
    /\ polls >= 1
    /\ IsFailedQuery(last_status)
    /\ pc = "poll_sleep"
    /\ now - poll_start < timeout

\* C10: a record whose confirmation_status is neither 'confirmed' nor
\* 'finalized' keeps the bundle pending and the polling going; a response
\* without a record (no result, no value array, an empty array) yields
\* Expired and ends the loop at once, whatever the deadline.
C10_StatusMapping ==
    /\ (polls >= 1 /\ IsPendingRecord(last_status)) => TreatedAsPending
    /\ (polls >= 1 /\ IsNoRecord(last_status))
         => PollingReturned(Expired(bundle_id))

\* C10 witness: a response without a record ended the loop before the
\* deadline, after an earlier query had reported a pending status.
C10_Witness ==
    /\ polls = 2
    /\ pending_seen = 1
    /\ IsNoRecord(last_status)
    /\ pc = "done"
    /\ result.status.tag = "Expired"
    /\ result.elapsed_ms < timeout

\* ---------------------------------------------------------------------
\* Builder and lifecycle properties
\* ---------------------------------------------------------------------
EMPTY_BUNDLE_ERROR == "Cannot build an empty bundle"

ConfirmReturned == call = "submit_and_confirm" /\ pc = "done"

SubmitReturned(tag) ==
    submit_result.kind = "Ok" /\ submit_result.status.tag = tag

\* C11: in submit_and_confirm, polling starts only if submit returned
\* Accepted; a Rejected result of submit is returned unchanged and no status
\* query is issued; the status finally reported is Landed, Rejected or
\* Expired, never Accepted.
C11_ConfirmLifecycle ==
    /\ (pc \in {"poll_sleep", "poll_query"} \/ polls >= 1 \/ poll_sleeps >= 1)
         => SubmitReturned("Accepted")
    /\ (ConfirmReturned /\ SubmitReturned("Rejected"))
         => (result = submit_result /\ polls = 0 /\ poll_sleeps = 0)
    /\ (ConfirmReturned /\ result.kind = "Ok")
         => result.status.tag \in {"Landed", "Rejected", "Expired"}

\* C11 witness: submit_and_confirm handed back a rejection that the relay
\* answered, without any status query.
C11_Witness ==
    /\ ConfirmReturned
    /\ SubmitReturned("Rejected")
    /\ sent >= 1
    /\ result = submit_result
    /\ polls = 0

\* C12: the bundle never holds more than 5 transactions; an add on a bundle
\* of 5 returns an error and leaves contents and order unchanged; every
\* successful add appends exactly one transaction at the end.
C12_AtMostFive ==
    /\ [](/\ Len(transactions) <= 5
          /\ last_add = "err" => Len(transactions) = 5)
    /\ [][/\ Len(transactions) = 5 => transactions' = transactions
          /\ (pc' = "idle" /\ Len(transactions) = 5) => last_add' = "err"
          /\ (pc' = "idle" /\ Len(transactions) < 5) =>
                /\ last_add' = "ok"
                /\ Len(transactions') = Len(transactions) + 1
                /\ SubSeq(transactions', 1, Len(transactions)) = transactions
                /\ transactions'[Len(transactions')] \in TxBlobs]_vars

\* C12 witness: an add was refused on a bundle of five transactions that
\* are not all the same.
C12_Witness ==
    /\ Len(transactions) = 5
    /\ last_add = "err"
    /\ transactions[1] # transactions[5]

\* C13: build on an empty builder is an error; submit and
\* submit_and_confirm on an empty builder return that error before any
\* request is sent; build never produces a payload of more than 5
\* transactions.
C13_EmptyBuilderFails ==
    /\ (pc # "idle" /\ Len(transactions) = 0) =>
          /\ pc = "done"
          /\ result = ErrResult(EMPTY_BUNDLE_ERROR)
          /\ sent = 0
          /\ polls = 0
    /\ (call = "build" /\ pc = "done" /\ result.kind = "Ok") =>
          /\ Len(result.payload.params) = 1
          /\ Len(result.payload.params[1]) \in 1..5

\* C13 witness: submit_and_confirm returned on an empty builder.
C13_Witness ==
    /\ ConfirmReturned
    /\ Len(transactions) = 0
    /\ result.kind = "Err"
    /\ sent = 0

\* C14: for a bundle of n transactions, 1 <= n <= 5, the params of the
\* payload hold one list of exactly n encoded entries in insertion order,
\* and decoding entry i gives back the bytes of the i-th transaction.
C14_PayloadRoundTrip ==
    (call = "build" /\ pc = "done" /\ Len(transactions) >= 1) =>
        /\ result.kind = "Ok"
        /\ result.payload.method = "sendBundle"
        /\ Len(result.payload.params) = 1
        /\ Len(result.payload.params[1]) = Len(transactions)
        /\ \A i \in 1..Len(transactions) :
              Bs58Decode(result.payload.params[1][i]) = transactions[i]

\* C14 witness: a payload was built from three transactions, the first with
\* leading zero bytes and the second different from it.
C14_Witness ==
    /\ call = "build"
    /\ pc = "done"
    /\ Len(transactions) = 3
    /\ transactions[1] = <<0, 0, 57>>
    /\ transactions[2] = <<255, 255>>
    /\ result.kind = "Ok"

\* ---------------------------------------------------------------------
\* Fee estimator properties
\* ---------------------------------------------------------------------
PercentileCalled == fee_call.op = "percentile"
EstimateCalled == fee_call.op = "estimate"
EstimatorCalled == fee_call.op \in {"estimate", "estimate_with_buffer"}

\* The response of the call carried a well-formed list of entries.
EntriesReported ==
    /\ EstimatorCalled
    /\ fee_call.resp.kind = "json"
    /\ IsEntryList(Index(fee_call.resp.body, "result"))

ReportedEntries == Index(fee_call.resp.body, "result").v

\* The positions of the entries with a non-zero fee, and those fees.
SamplePositions ==
    {i \in 1..Len(ReportedEntries) :
        Get(ReportedEntries[i], "prioritizationFee").v # U64(0)}

Samples ==
    {Get(ReportedEntries[i], "prioritizationFee").v : i \in SamplePositions}

\* The nearest rank in exact arithmetic: the integer k nearest to
\* p / 100 * (n - 1), the upper one when two are equally near.
ExactRank(p, n) ==
    CHOOSE k \in 0..n :
        100 * k - 50 <= p * (n - 1) /\ p * (n - 1) < 100 * k + 50

\* C15: percentile on the sorted sequence 100, 200, ..., 1000 gives 100 for
\* p = 0, 600 for p = 50 and 1000 for p = 90.
C15_AsStated ==
    (PercentileCalled /\ fee_call.sorted_fees = Ramp(10)) =>
        /\ fee_call.pct = 0 => fee_result.value = U64(100)
        /\ fee_call.pct = 50 => fee_result.value = U64(600)
        /\ fee_call.pct = 90 => fee_result.value = U64(1000)

C17_PercentilesOrdered ==
    (EntriesReported /\ Samples # {}) =>
        /\ fee_result.kind = "Ok"
        /\ U64Le(fee_result.percentiles.p25, fee_result.percentiles.p50)
        /\ U64Le(fee_result.percentiles.p50, fee_result.percentiles.p75)
        /\ U64Le(fee_result.percentiles.p75, fee_result.percentiles.p90)
        /\ U64Le(fee_result.percentiles.p90, fee_result.percentiles.max)
        /\ fee_result.percentiles.max \in Samples
        /\ \A x \in Samples : U64Le(x, fee_result.percentiles.max)

\* C17 witness: an estimate over three distinct samples reported in
\* descending order.
C17_Witness ==
    /\ EstimateCalled
    /\ fee_call.resp.kind = "json"
    /\ fee_call.resp.body =
          JObj([result |-> EntryList(<<U64_MAX, U64(5000), U64(100)>>)])
    /\ fee_result.kind = "Ok"
    /\ fee_result.percentiles.max = U64_MAX

\* C18: when the sample set is empty (no entry, or every reported fee
\* zero) estimate does not fail and, for every strategy, recommends 10000
\* with slots_sampled = 0 and every percentile 0.
C18_EmptyGivesDefault ==
    (EstimateCalled /\ EntriesReported /\ Samples = {}) =>
        /\ fee_result.kind = "Ok"
        /\ fee_result.recommended_fee = U64(10000)
        /\ fee_result.strategy = fee_call.strategy
        /\ fee_result.slots_sampled = 0
        /\ \A f \in {"p25", "p50", "p75", "p90", "max"} :
              fee_result.percentiles[f] = U64(0)

\* C18 witness: an estimate over two entries whose fees are both zero.
C18_Witness ==
    /\ EstimateCalled
    /\ EntriesReported
    /\ Len(ReportedEntries) = 2
    /\ Samples = {}
    /\ fee_call.strategy = "Turbo"
    /\ fee_result.kind = "Ok"

\* C19: for a non-empty sample set the recommended fee of estimate is the
\* percentile field of the strategy's target (Economy p25, Standard p50,
\* Fast p75, Turbo p90) and slots_sampled is the number of samples used.
C19_StrategyTarget ==
    (EstimateCalled /\ EntriesReported /\ Samples # {}) =>
        /\ fee_result.kind = "Ok"
        /\ fee_result.slots_sampled = Cardinality(SamplePositions)
        /\ fee_call.strategy = "Economy" =>
              fee_result.recommended_fee = fee_result.percentiles.p25
        /\ fee_call.strategy = "Standard" =>
              fee_result.recommended_fee = fee_result.percentiles.p50
        /\ fee_call.strategy = "Fast" =>
              fee_result.recommended_fee = fee_result.percentiles.p75
        /\ fee_call.strategy = "Turbo" =>
              fee_result.recommended_fee = fee_result.percentiles.p90

\* C19 witness: a Fast estimate over three samples and one zero fee, whose
\* p75 differs from its p50.
C19_Witness ==
    /\ EstimateCalled
    /\ EntriesReported
    /\ fee_call.strategy = "Fast"
    /\ Cardinality(SamplePositions) = 2
    /\ Len(ReportedEntries) = 3
    /\ fee_result.kind = "Ok"
    /\ fee_result.percentiles.p75 # fee_result.percentiles.p25
    /\ fee_result.recommended_fee = fee_result.percentiles.p75

\* C20: for every strategy and every sample set (every u64 fee value, and
\* the empty set) estimate_with_buffer(strategy, 1.0) gives the recommended
\* fee and the percentiles of estimate(strategy).
C20_AsStated ==
    (fee_call.op = "estimate_with_buffer" /\ fee_call.multiplier = F64_ONE
       /\ fee_result.kind = "Ok") =>
        /\ fee_result.recommended_fee =
              Estimate(fee_call.strategy, fee_call.resp).recommended_fee
        /\ fee_result.percentiles =
              Estimate(fee_call.strategy, fee_call.resp).percentiles

\* C21: for every multiplier estimate_with_buffer changes only
\* recommended_fee, which becomes the product of estimate's recommended fee
\* and the multiplier, truncated to the integer below; the percentiles, the
\* strategy and slots_sampled are those of estimate on the same samples.
BufferCalled == fee_call.op = "estimate_with_buffer"

\* The integer part of fee * multiplier in exact arithmetic, as a bit string
\* without leading zeros.
ExactProductFloor(fee, multiplier) ==
    LET product == MulBits(Strip(fee), multiplier.num)
    IN  IF multiplier.exp2 >= 0 THEN product \o Zeros(multiplier.exp2)
        ELSE SubSeq(product, 1, Len(product) + multiplier.exp2)

C21_AsStated ==
    (BufferCalled /\ fee_result.kind = "Ok") =>
        /\ Strip(fee_result.recommended_fee) =
              Strip(ExactProductFloor(
                  Estimate(fee_call.strategy, fee_call.resp).recommended_fee,
                  fee_call.multiplier))
        /\ fee_result.percentiles =
              Estimate(fee_call.strategy, fee_call.resp).percentiles
        /\ fee_result.strategy = fee_call.strategy
        /\ fee_result.slots_sampled =
              Estimate(fee_call.strategy, fee_call.resp).slots_sampled

\* C22: every value fetch_recent_fees returns is > 0; the returned sequence
\* holds exactly the non-zero prioritizationFee values of the RPC result,
\* each as many times as it was reported; slots_sampled of an estimate
\* counts only the entries with a non-zero fee.
FetchCalled == fee_call.op = "fetch_recent_fees"

Occurrences(q, v) == Cardinality({i \in 1..Len(q) : q[i] = v})

ReportedFees ==
    [i \in 1..Len(ReportedEntries) |->
        Get(ReportedEntries[i], "prioritizationFee").v]

C22_OnlyNonZeroFees ==
    /\ (FetchCalled /\ fee_result.kind = "Ok") =>
          /\ \A i \in 1..Len(fee_result.fees) :
                BitsLess(U64(0), fee_result.fees[i])
          /\ Occurrences(fee_result.fees, U64(0)) = 0
          /\ \A v \in FeeValues \ {U64(0)} :
                Occurrences(fee_result.fees, v) = Occurrences(ReportedFees, v)
          /\ \A i \in 1..Len(fee_result.fees) : fee_result.fees[i] \in FeeValues
    /\ (EstimateCalled /\ fee_result.kind = "Ok") =>
          fee_result.slots_sampled = Cardinality(SamplePositions)

\* C22 witness: three entries were reported, one with a zero fee and two
\* with the same non-zero fee, and both of these were returned.
C22_Witness ==
    /\ FetchCalled
    /\ fee_result.kind = "Ok"
    /\ ReportedFees = <<U64(100), U64(0), U64(100)>>
    /\ fee_result.fees = <<U64(100), U64(100)>>

\* C23: fetch_recent_fees returns an empty sequence, never an error, when
\* the call succeeds but yields no fee data (an empty result array, or a
\* received response carrying no result entries); only a transport or
\* parsing failure gives an error, which estimate returns in place of the
\* fallback.
NoFeeData ==
    /\ fee_call.resp.kind = "json"
    /\ Index(fee_call.resp.body, "result") \in {JNull, JArr(<<>>)}

TransportOrParsingFailure ==
    \/ fee_call.resp.kind \in {"send_error", "bad_json"}
    \/ /\ fee_call.resp.kind = "json"
       /\ ~NoFeeData
       /\ ~IsEntryList(Index(fee_call.resp.body, "result"))

C23_AsStated ==
    /\ (FetchCalled /\ NoFeeData) =>
          fee_result = [kind |-> "Ok", fees |-> <<>>]
    /\ (FetchCalled /\ fee_result.kind = "Err") => TransportOrParsingFailure
    /\ (EstimateCalled /\ TransportOrParsingFailure) =>
          fee_result = FetchRecentFees(fee_call.resp)

\* ---------------------------------------------------------------------
\* Retry, ordering and timing properties
\* ---------------------------------------------------------------------
\* The bits of 100 * 2^(k-1), without leading zeros.
ExactBackoff(k) == NatBits(BASE_DELAY_MS) \o Zeros(k - 1)

\* C24: the sleep between attempt k and attempt k+1 is exactly
\* 100 ms * 2^(k-1) for every k with 1 <= k < max_retries and every
\* max_retries of the 8-bit type; there is no sleep after the last attempt;
\* the computation of the delay never overflows, wraps or aborts the call.
C24_AsStated ==
    /\ pc # "panicked"
    /\ pc = "backoff" =>
          (backoff.kind = "sleep" /\ Strip(backoff.ms) = ExactBackoff(attempt))
    /\ pc = "done" => (sleeps = 0 \/ sleeps = max_retries - 1)

\* C25: the attempts of one call are strictly sequential: request k+1 is
\* sent only after attempt k has resolved and its backoff sleep has
\* finished; status queries are issued one at a time, each after the
\* previous one has resolved and after a sleep of one poll interval.
C25_Sequential ==
    [][ /\ sent' = sent + 1 =>
             /\ pc = "send"
             /\ attempt = sent + 1
             /\ sleeps = sent
             /\ sent >= 1 => now >= resolved_at + BASE_DELAY_MS * 2^(sent - 1)
             /\ polls = 0
        /\ polls' = polls + 1 =>
             /\ pc = "poll_query"
             /\ poll_sleeps = polls + 1
             /\ now >= resolved_at + 500
             /\ sent' = sent
      ]_vars

C25_Witness ==
    /\ call = "submit_and_confirm"
    /\ sent = 2
    /\ sleeps = 1
    /\ polls = 2
    /\ poll_sleeps = 2

\* C26: the result of submit_and_confirm is cumulative: its elapsed time is
\* the wall-clock time since submit_and_confirm began, so it is never smaller
\* than the elapsed time of the submission phase.
C26_AsStated ==
    (ConfirmReturned /\ result.kind = "Ok") =>
        /\ result.elapsed_ms = now - start
        /\ result.elapsed_ms >= submit_result.elapsed_ms

\* ---------------------------------------------------------------------
\* Tip accounts
\* ---------------------------------------------------------------------
TipCalled == tip_call # NoTipCall

\* C28: Config::random_tip_account never fails; for every value of the
\* clock, a clock before the epoch included, it returns one of the 8 entries
\* of JITO_TIP_ACCOUNTS (the index, the sub-second nanoseconds modulo 8, is
\* always in range).
C28_TipAccountInSet ==
    TipCalled =>
        /\ tip_result.kind = "Ok"
        /\ Len(JITO_TIP_ACCOUNTS) = 8
        /\ \E i \in 1..8 :
              /\ tip_result.account = JITO_TIP_ACCOUNTS[i]
              /\ i - 1 = SubsecNanos(tip_call.clock) % 8

C28_Witness ==
    /\ TipCalled
    /\ ~tip_call.clock.before_epoch
    /\ tip_call.clock.nanos = NANOS_PER_SEC - 1
    /\ tip_result.kind = "Ok"
    /\ tip_result.account = JITO_TIP_ACCOUNTS[8]

C28_WitnessBeforeEpoch ==
    /\ TipCalled
    /\ tip_call.clock.before_epoch
    /\ tip_call.clock.nanos = NANOS_PER_SEC - 1
    /\ tip_result.kind = "Ok"
    /\ tip_result.account = JITO_TIP_ACCOUNTS[1]

\* ---------------------------------------------------------------------
\* The vault program
\* ---------------------------------------------------------------------
\* The sum of one digit position over a list of amounts, and the exact sum
\* of the list: five digits, the first one non-zero when the sum does not
\* fit 64 bits.
RECURSIVE ColumnSum(_, _, _)
ColumnSum(amounts, k, i) ==
    IF i > Len(amounts) THEN 0
    ELSE amounts[i][k] + ColumnSum(amounts, k, i + 1)

ExactSum(amounts) ==
    LET c4 == ColumnSum(amounts, 4, 1)
        c3 == ColumnSum(amounts, 3, 1) + (c4 \div LIMB)
        c2 == ColumnSum(amounts, 2, 1) + (c3 \div LIMB)
        c1 == ColumnSum(amounts, 1, 1) + (c2 \div LIMB)
    IN  <<c1 \div LIMB, c1 % LIMB, c2 % LIMB, c3 % LIMB, c4 % LIMB>>

\* The lamports of the vault above the rent-exempt minimum.
AboveMinimum == SubDigits(lamports[VAULT], RENT_EXEMPT_MIN)

\* This step is execute_batch, called by the owner on the existing vault.
BatchStep ==
    /\ vault_call'.op = "execute_batch"
    /\ vault.exists
    /\ vault_call'.signer = vault.owner

BatchValidationErrors ==
    {"LengthMismatch", "EmptyBatch", "BatchTooLarge", "Overflow",
     "InsufficientFunds"}

\* C29: execute_batch validates before any transfer: it fails with
\* LengthMismatch when the two lists differ in length, EmptyBatch when they
\* are empty, BatchTooLarge for more than 10 recipients, Overflow when the
\* sum of the amounts overflows 64 bits, InsufficientFunds when the sum
\* exceeds the lamports above the rent-exempt minimum; in each of these
\* cases no lamports move and total_withdrawn and tx_count are unchanged.
C29_ValidatesBeforeTransfer ==
    [][BatchStep =>
        LET r == vault_call'.recipients
            a == vault_call'.amounts
            err == vault_call'.err
            shape_ok == Len(r) = Len(a) /\ Len(r) \in 1..10
        IN  /\ Len(r) # Len(a) => err = "LengthMismatch"
            /\ (Len(r) = Len(a) /\ Len(r) = 0) => err = "EmptyBatch"
            /\ (Len(r) = Len(a) /\ Len(r) > 10) => err = "BatchTooLarge"
            /\ (shape_ok /\ ExactSum(a)[1] # 0) => err = "Overflow"
            /\ (shape_ok /\ ExactSum(a)[1] = 0
                /\ W64Less(AboveMinimum, Tail(ExactSum(a)))) =>
                   err = "InsufficientFunds"
            /\ err \in BatchValidationErrors =>
                  /\ lamports' = lamports
                  /\ vault' = vault
      ]_vars

\* C29 witness: the owner asked for more than the funded vault holds above
\* the minimum.
C29_Witness ==
    /\ vault_call.op = "execute_batch"
    /\ vault_call.err = "InsufficientFunds"
    /\ vault.exists
    /\ vault_call.signer = vault.owner
    /\ vault.total_deposited # W64(0)
    /\ ExactSum(vault_call.amounts)[1] = 0

\* C30: after any sequence of initialize_vault, deposit and execute_batch
\* the lamports of the vault are never below the rent-exempt minimum; a
\* successful execute_batch moves out at most the lamports above it.
C30_KeepsRentExemptMinimum ==
    /\ [](vault.exists => W64Le(RENT_EXEMPT_MIN, lamports[VAULT]))
    /\ [][(BatchStep /\ vault_call'.err = "none") =>
            /\ ExactSum(vault_call'.amounts)[1] = 0
            /\ W64Le(Tail(ExactSum(vault_call'.amounts)), AboveMinimum)
            /\ W64Le(lamports'[VAULT], lamports[VAULT])
            /\ W64Le(SubDigits(lamports[VAULT], lamports'[VAULT]),
                     AboveMinimum)
         ]_vars

\* C30 witness: a batch has moved out everything above the minimum.
C30_Witness ==
    /\ vault_call.op = "execute_batch"
    /\ vault_call.err = "none"
    /\ vault.total_withdrawn # W64(0)
    /\ lamports[VAULT] = RENT_EXEMPT_MIN

\* ---------------------------------------------------------------------
\* Independent builders
\* ---------------------------------------------------------------------
\* The builders as they are, with no call made on any of them.
NoCalls ==
    [x \in Builders |->
        Task(tasks[x].transactions, tasks[x].tip_lamports,
             tasks[x].max_retries)]

\* The call of b run with nothing else in flight, fed the responses that b
\* received: first its submission attempts, then its status queries.
RECURSIVE AloneAttempts(_, _, _, _)
AloneAttempts(ts0, b, heard, i) ==
    CHOOSE r \in
        {IF i > Len(heard) THEN ts
         ELSE LET t1 == [ts EXCEPT ![b] = TaskAttempt(ts, b, heard[i])]
              IN  AloneAttempts(IF t1[b].pc = "backoff"
                                THEN [t1 EXCEPT ![b] = TaskBackoff(t1, b)]
                                ELSE t1,
                                b, heard, i + 1) :
            ts \in {ts0}} : TRUE

RECURSIVE AlonePolls(_, _, _, _)
AlonePolls(ts0, b, asked, i) ==
    CHOOSE r \in
        {IF i > Len(asked) THEN ts
         ELSE LET t1 == [ts EXCEPT ![b] = TaskPollSleep(ts, b)]
              IN  AlonePolls([t1 EXCEPT ![b] = TaskPoll(t1, b, asked[i].resp,
                                                        asked[i].lat)],
                             b, asked, i + 1) :
            ts \in {ts0}} : TRUE

Alone(b) ==
    LET called == [NoCalls EXCEPT ![b] =
                      IF tasks[b].call = "build" THEN TaskBuild(NoCalls, b)
                      ELSE TaskCall(NoCalls, b, tasks[b].call,
                                    tasks[b].timeout)]
    IN  AlonePolls(AloneAttempts(called, b, tasks[b].heard, 1),
                   b, tasks[b].asked, 1)[b]

Returned(b) == tasks[b].pc = "done"

\* C27: calls of submit and submit_and_confirm on independent builders may
\* be interleaved in any way, and each call's result (status and attempts)
\* depends only on the relay's responses to its own requests: it is the
\* result the same call gives when nothing else runs; neither submit nor
\* build modifies the builder's transactions, tip or retry limit.
C27_IndependentCalls ==
    /\ [](\A b \in Builders :
            Returned(b) =>
                /\ Alone(b).pc = "done"
                /\ Alone(b).result = tasks[b].result)
    /\ [][\A b \in Builders :
            /\ tasks'[b].transactions = tasks[b].transactions
            /\ tasks'[b].tip_lamports = tasks[b].tip_lamports
            /\ tasks'[b].max_retries = tasks[b].max_retries]_vars

\* C27 witness: two calls that ran at the same time have both returned, one
\* after a retry, the other after polling.
C27_Witness ==
    /\ \A b \in Builders : Returned(b) /\ tasks[b].overlapped
    /\ tasks[1].call = "submit"
    /\ tasks[1].result.kind = "Ok"
    /\ tasks[1].result.attempts = 2
    /\ tasks[2].call = "submit_and_confirm"
    /\ tasks[2].result.kind = "Ok"
    /\ tasks[2].result.status.tag = "Landed"
    /\ Len(tasks[2].asked) = 2

\* ---------------------------------------------------------------------
\* deposit
\* ---------------------------------------------------------------------
\* This step is deposit on the existing vault.
DepositStep == vault_call'.op = "deposit" /\ vault.exists

\* a + b as five digits, and whether it needs more than 64 bits.
Plus(a, b) == ExactSum(<<a, b>>)
Exceeds64(a, b) == Plus(a, b)[1] # 0

\* The depositor holds the amount.
CanPay(d, a) == W64Le(a, lamports[d])

\* The step left the vault and every balance as they were.
NothingChanged == vault' = vault /\ lamports' = lamports

C31_WitnessCount ==
    /\ vault_call.op = "deposit"
    /\ vault_call.err = "Overflow"
    /\ vault_call.amount = W64(1)
    /\ vault.total_deposited = W64(1)
    /\ vault.tx_count = W64_MAX

\* A deposit was made.
C31_WitnessDeposited ==
    /\ vault_call.op = "deposit"
    /\ vault_call.err = "none"
    /\ vault.tx_count = W64_MAX
    /\ vault.total_deposited = W64Pow63Plus(1)

\* ---------------------------------------------------------------------
\* initialize_vault
\* ---------------------------------------------------------------------
\* This step is initialize_vault.
InitializeStep == vault_call'.op = "initialize_vault"

\* C32 as stated: initialize_vault fails with NameTooLong when the name is
\* longer than 32 bytes and creates nothing.
C32_AsStated ==
    [][(InitializeStep /\ vault_call'.name_len > 32) =>
          /\ vault_call'.err = "NameTooLong"
          /\ NothingChanged
      ]_vars

\* A name of 33 bytes was refused, and not with NameTooLong.
C32_SeedTooLong ==
    /\ vault_call.op = "initialize_vault"
    /\ vault_call.name_len = 33
    /\ vault_call.err = "MaxSeedLengthExceeded"
    /\ ~vault.exists

\* ---------------------------------------------------------------------
\* Who takes lamports out of a vault
\* ---------------------------------------------------------------------
\* This step is an instruction of the program.
VaultStep ==
    vault_call'.op \in
        {"initialize_vault", "deposit", "execute_batch", "close_vault"}

Withdrawing == {"execute_batch", "close_vault"}

\* C33: execute_batch and close_vault succeed only when the signer is the
\* owner the vault records; no instruction signed by another account
\* decreases the lamports of the vault or changes total_withdrawn;
\* close_vault by the owner moves every lamport of the vault to the owner
\* and removes the vault.
C33_OnlyOwnerWithdraws ==
    [][VaultStep =>
        LET op == vault_call'.op
            signer == vault_call'.signer
            err == vault_call'.err
        IN  /\ (op \in Withdrawing /\ err = "none") =>
                  vault.exists /\ signer = vault.owner
            /\ (vault.exists /\ signer # vault.owner) =>
                  /\ W64Le(lamports[VAULT], lamports'[VAULT])
                  /\ vault'.total_withdrawn = vault.total_withdrawn
                  /\ vault'.exists
                  /\ vault'.owner = vault.owner
            /\ (op = "close_vault" /\ vault.exists /\ signer = vault.owner) =>
                  /\ err = "none"
                  /\ ~vault'.exists
                  /\ lamports'[VAULT] = W64(0)
                  /\ Plus(lamports[signer], lamports[VAULT])
                        = <<0>> \o lamports'[signer]
                  /\ \A x \in Accounts \ {signer, VAULT} :
                        lamports'[x] = lamports[x]
      ]_vars

\* C33 witness: alice closed her vault and received the lamport bob had
\* deposited, together with the rent she had paid.
C33_Witness ==
    /\ vault_call.op = "close_vault"
    /\ vault_call.signer = "alice"
    /\ vault_call.err = "none"
    /\ ~vault.exists
    /\ lamports[VAULT] = W64(0)
    /\ lamports["alice"] = W64Pow63Plus(2000001)
    /\ lamports["bob"] = W64(1999999)

\* bob tried to close the vault of alice, which holds his deposit.
C33_WitnessRefused ==
    /\ vault_call.op = "close_vault"
    /\ vault_call.signer = "bob"
    /\ vault_call.err = "ConstraintHasOne"
    /\ vault.exists
    /\ vault.owner = "alice"
    /\ lamports["bob"] = W64(1999999)

\* ---------------------------------------------------------------------
\* What submit does with the outcome of each attempt
\* ---------------------------------------------------------------------
\* This step is an attempt of submit: a request sent and resolved.
AttemptStep == sent' = sent + 1

\* The message of the error the response of this attempt carries, if any.
ErrorMessage(resp) ==
    IF resp.kind = "json" /\ "error" \in DOMAIN resp.body.v
       /\ resp.body.v.error.t = "obj"
       /\ "message" \in DOMAIN resp.body.v.error.v
       /\ resp.body.v.error.v.message.t = "str"
    THEN resp.body.v.error.v.message.v
    ELSE <<>>

IsTerminalMessage(msg) ==
    \E i \in 1..Len(msg) :
        \/ /\ i + 1 <= Len(msg)
           /\ SubSeq(msg, i, i + 1) = <<"already", "processed">>
        \/ /\ i + 2 <= Len(msg)
           /\ SubSeq(msg, i, i + 2) = <<"blockhash", "not", "found">>

\* The three classes of an attempt, read off what the call did next.
ClassedAccepted ==
    /\ submit_result'.kind = "Ok"
    /\ submit_result'.status.tag = "Accepted"
    /\ submit_result'.attempts = attempt

ClassedTerminal ==
    /\ submit_result'.kind = "Ok"
    /\ submit_result'.status.tag = "Rejected"
    /\ submit_result'.status.reason = ErrorMessage(last_resp')
    /\ IsTerminalMessage(ErrorMessage(last_resp'))
    /\ submit_result'.attempts = attempt

ClassedRetryable ==
    \/ /\ attempt < max_retries
       /\ pc' = "backoff"
       /\ submit_result' = NoResult
    \/ /\ attempt = max_retries
       /\ submit_result'.kind = "Ok"
       /\ submit_result'.status = Rejected(<<"Max", "retries", "exceeded">>)
       /\ submit_result'.attempts = max_retries

\* The responses the statement lists as retryable.
ListedRetryable(resp) ==
    /\ resp.kind = "json"
    /\ \/ /\ "error" \in DOMAIN resp.body.v
          /\ ~IsTerminalMessage(ErrorMessage(resp))
          /\ ~(resp.http_ok /\ "result" \in DOMAIN resp.body.v)
       \/ /\ "error" \notin DOMAIN resp.body.v
          /\ "result" \notin DOMAIN resp.body.v
       \/ /\ ~resp.http_ok
          /\ "result" \in DOMAIN resp.body.v
          /\ ~IsTerminalMessage(ErrorMessage(resp))

\* C34 as stated: every attempt is classified as accepted, terminal-reject
\* or retryable-error; an error without a terminal message, a response with
\* neither result nor error and a non-successful response carrying a result
\* are retryable; submit returns Rejected only for a terminal message or
\* after max_retries attempts.
C34_AsStated ==
    [][AttemptStep =>
          /\ ClassedAccepted \/ ClassedTerminal \/ ClassedRetryable
          /\ ListedRetryable(last_resp') => ClassedRetryable
          /\ (submit_result'.kind = "Ok"
              /\ submit_result'.status.tag = "Rejected") =>
                 \/ IsTerminalMessage(ErrorMessage(last_resp'))
                 \/ attempt = max_retries
      ]_vars

\* ---------------------------------------------------------------------
\* Termination of submit
\* ---------------------------------------------------------------------
\* C35 as stated: whatever the relay does, as long as every request
\* resolves, submit sends at most max_retries requests, sleeps at most
\* max_retries - 1 times, and then returns.
C35_AsStated ==
    /\ [](sent <= max_retries /\ (sleeps = 0 \/ sleeps <= max_retries - 1))
    /\ (call = "submit") ~> (pc = "done" /\ result.kind = "Ok")

\* ---------------------------------------------------------------------
\* The attempts reported by submit_and_confirm
\* ---------------------------------------------------------------------
\* C36: the attempts field of the result of submit_and_confirm is the
\* attempts value of the submission phase, the number of sendBundle
\* requests; the status polls, however many and whatever they returned,
\* do not change it.
C36_AttemptsFromSubmission ==
    (ConfirmReturned /\ result.kind = "Ok") =>
        /\ result.attempts = submit_result.attempts
        /\ result.attempts = sent

\* C36 witness: accepted at the second attempt, landed at the third poll,
\* after a failed query and a pending one.
C36_Witness ==
    /\ ConfirmReturned
    /\ result.kind = "Ok"
    /\ result.status.tag = "Landed"
    /\ sent = 2
    /\ polls = 3
    /\ pending_seen = 1
    /\ result.attempts = 2

\* ---------------------------------------------------------------------
\* A retry limit of zero
\* ---------------------------------------------------------------------
\* submit has been called on a bundle that is not empty.
SubmitCalled ==
    /\ call \in {"submit", "submit_and_confirm"}
    /\ transactions # <<>>

\* C37: with max_retries = 0, submit on a non-empty bundle sends no request
\* and returns Rejected{'Max retries exceeded'} with attempts = 0; with
\* max_retries >= 1 at least one request is sent before any result is
\* returned.
C37_ZeroRetries ==
    /\ (SubmitCalled /\ max_retries = 0) =>
          /\ sent = 0
          /\ sleeps = 0
          /\ submit_result.kind = "Ok"
          /\ submit_result.status = Rejected(<<"Max", "retries", "exceeded">>)
          /\ submit_result.attempts = 0
          /\ pc = "done"
          /\ result = submit_result
    /\ (SubmitCalled /\ max_retries >= 1 /\ submit_result # NoResult) =>
          sent >= 1

\* C37 witness: submit returned on a builder whose retry limit is zero.
C37_Witness ==
    /\ call = "submit"
    /\ transactions # <<>>
    /\ max_retries = 0
    /\ pc = "done"
    /\ result.kind = "Ok"
    /\ result.status.tag = "Rejected"
    /\ result.attempts = 0
    /\ sent = 0

\* ---------------------------------------------------------------------
\* The values carried by the statuses
\* ---------------------------------------------------------------------
\* The identifier string in the result field of the last sendBundle
\* response, and the slot number in the first record of the last status
\* response, as sets: empty when the relay sent none.
SentIdentifiers ==
    IF last_resp.kind = "json" /\ "result" \in DOMAIN last_resp.body.v
       /\ last_resp.body.v.result.t = "str"
    THEN {last_resp.body.v.result.v}
    ELSE {}

SentSlots ==
    IF HasRecord(last_status) /\ "slot" \in DOMAIN FirstRecord(last_status).v
       /\ FirstRecord(last_status).v.slot.t = "num"
    THEN {FirstRecord(last_status).v.slot.v}
    ELSE {}

\* C38 as stated: the bundle_id of an Accepted status is the identifier
\* string the relay sent in the result field of that attempt's response,
\* and the slot of a Landed status is the slot the relay reported; no
\* status carries a value the relay did not send.
C38_AsStated ==
    /\ SubmitReturned("Accepted") =>
          submit_result.status.bundle_id \in SentIdentifiers
    /\ (ConfirmReturned /\ result.kind = "Ok"
        /\ result.status.tag = "Landed") =>
          /\ result.status.slot \in SentSlots
          /\ result.status.bundle_id \in SentIdentifiers

\* The relay accepted with a result that is not a string, and the status
\* carries the identifier 'unknown'.
C38_PlaceholderId ==
    /\ SubmitReturned("Accepted")
    /\ SentIdentifiers = {}
    /\ submit_result.status.bundle_id = "unknown"

\* The relay reported a finalized bundle without a slot, and the status
\* carries slot 0.
C38_PlaceholderSlot ==
    /\ ConfirmReturned
    /\ result.kind = "Ok"
    /\ result.status.tag = "Landed"
    /\ SentSlots = {}
    /\ SentIdentifiers # {}
    /\ result.status.slot = 0

\* ---------------------------------------------------------------------
\* The fees of an estimate are fees that were reported
\* ---------------------------------------------------------------------
\* The recommended fee and the four percentiles of the estimate returned.
EstimatedFees ==
    {fee_result.recommended_fee, fee_result.percentiles.p25,
     fee_result.percentiles.p50, fee_result.percentiles.p75,
     fee_result.percentiles.p90}

\* C39: for every non-empty sample set and every strategy, the recommended
\* fee and each of p25, p50, p75, p90 returned by estimate is one of the
\* sample values, hence lies between the smallest and the largest sample
\* and is strictly positive.
C39_FeesAreSamples ==
    (EstimateCalled /\ EntriesReported /\ Samples # {}) =>
        /\ fee_result.kind = "Ok"
        /\ \A v \in EstimatedFees :
              /\ v \in Samples
              /\ BitsLess(U64(0), v)
              /\ \E lo \in Samples, hi \in Samples :
                    /\ \A x \in Samples : U64Le(lo, x) /\ U64Le(x, hi)
                    /\ U64Le(lo, v)
                    /\ U64Le(v, hi)

\* C39 witness: an Economy estimate over the samples u64::MAX, 100 and
\* 5000, reported in that order.
C39_Witness ==
    /\ EstimateCalled
    /\ fee_call.strategy = "Economy"
    /\ EntriesReported
    /\ ReportedFees = <<U64_MAX, U64(100), U64(5000)>>
    /\ fee_result.kind = "Ok"
    /\ fee_result.recommended_fee = U64(5000)
    /\ fee_result.percentiles.p90 = U64_MAX

\* ---------------------------------------------------------------------
\* The counters of the vault and its lamports
\* ---------------------------------------------------------------------
\* lamports = rent-exempt minimum + total_deposited - total_withdrawn,
\* written without a subtraction.
CountersMatchLamports ==
    Plus(lamports[VAULT], vault.total_withdrawn)
        = Plus(RENT_EXEMPT_MIN, vault.total_deposited)

\* C40 as stated: after any sequence of successful initialize_vault,
\* deposit and execute_batch, for any recipient lists (the vault itself or
\* the same recipient several times among them, zero amounts too), the
\* lamports of the vault are the rent-exempt minimum + total_deposited -
\* total_withdrawn, so that total_withdrawn <= total_deposited; each
\* successful execute_batch adds the sum of its amounts to total_withdrawn
\* and 1 to tx_count.
C40_AsStated ==
    /\ [](vault.exists =>
            /\ CountersMatchLamports
            /\ W64Le(vault.total_withdrawn, vault.total_deposited))
    /\ [][(BatchStep /\ vault_call'.err = "none") =>
            /\ Plus(vault.total_withdrawn, Tail(ExactSum(vault_call'.amounts)))
                  = <<0>> \o vault'.total_withdrawn
            /\ Plus(vault.tx_count, W64(1)) = <<0>> \o vault'.tx_count
         ]_vars

\* A batch that names the vault as a recipient went through: the lamports
\* of the vault are what they were, and total_withdrawn has grown.
C40_PaidItself ==
    /\ vault_call.op = "execute_batch"
    /\ vault_call.err = "none"
    /\ vault_call.recipients = <<"bob", VAULT>>
    /\ vault_call.amounts = <<W64(0), W64(1)>>
    /\ vault.total_deposited = W64(1)
    /\ vault.total_withdrawn = W64(1)
    /\ lamports[VAULT] = Tail(Plus(RENT_EXEMPT_MIN, W64(1)))

\* The counters say more was withdrawn than was ever deposited.
C40_WithdrawnExceedsDeposited ==
    /\ vault.exists
    /\ W64Less(vault.total_deposited, vault.total_withdrawn)

====
